---- MODULE Spec2Model ----
(***************************************************************************)
(* A model of the mpc-stark two-party SPDZ runtime: the authenticated      *)
(* Stark-point algebra (src/src/algebra/authenticated_stark_point.rs) and  *)
(* the fabric that allocates results, queues operations and exchanges      *)
(* values with the peer (src/src/fabric.rs, src/src/fabric/result.rs).     *)
(*                                                                         *)
(* The Stark curve is a group of prime order; a point is represented by    *)
(* its discrete logarithm with respect to the generator, so the group is   *)
(* the additive group of the integers modulo FieldOrder and a scalar times  *)
(* a point is the product modulo FieldOrder.                               *)
(***************************************************************************)
EXTENDS Integers, Sequences, FiniteSets, TLC

\* ------------------------------------------------------------------------
\* Constants of the program
\* ------------------------------------------------------------------------

\* src/src/lib.rs: the two parties
PARTY0 == 0
PARTY1 == 1
Party == {PARTY0, PARTY1}
Peer(p) == IF p = PARTY0 THEN PARTY1 ELSE PARTY0

\* The order of the scalar field and of the curve group (a small prime here)
FieldOrder == 3
\* Random draws (share blinders, MAC splits, commitment blinders, triples)
\* are taken from 0..MaxRand
MaxRand == 1

Zp == 0 .. (FieldOrder - 1)
Rand == {r % FieldOrder : r \in 0 .. MaxRand}

\* ------------------------------------------------------------------------
\* Field and curve arithmetic (Scalar, StarkPoint)
\* ------------------------------------------------------------------------

Identity == 0
Generator == 1
PointAdd(a, b) == (a + b) % FieldOrder
PointSub(a, b) == (a - b + FieldOrder) % FieldOrder
PointNeg(a) == (FieldOrder - a) % FieldOrder
ScalarMul(s, a) == (s * a) % FieldOrder
ScalarFromBool(b) == IF b THEN 1 ELSE 0

\* ------------------------------------------------------------------------
\* AuthenticatedStarkPointResult: what one party holds of a shared point
\* ------------------------------------------------------------------------

AuthPoint(share, mac, public_modifier) ==
    [share |-> share, mac |-> mac, public_modifier |-> public_modifier]

AuthPointSet == [share : Zp, mac : Zp, public_modifier : Zp]

\* MpcScalarResult * MpcStarkPointResult: the parties end with an additive
\* sharing of the product of the two shared values; `split` is the share the
\* randomness of the multiplication leaves with party 0.
MpcMul(party_id, lhs, rhs, split) ==
    LET product == ScalarMul(PointAdd(lhs[PARTY0], lhs[PARTY1]),
                             PointAdd(rhs[PARTY0], rhs[PARTY1]))
    IN  IF party_id = PARTY0 THEN split ELSE PointSub(product, split)

\* AuthenticatedStarkPointResult::new_shared, given the party's share of the
\* value and its share of mac_key * value
new_shared(value, mac) == AuthPoint(value, mac, Identity)

\* MpcFabric::share_point: the share each party holds at the result id
share_point_value(party_id, val, sender, random_point) ==
    IF party_id = sender THEN PointSub(val, random_point) ELSE random_point

\* Add<&StarkPoint> for &AuthenticatedStarkPointResult
add_StarkPoint_every_party(party_id, self, other) ==
    AuthPoint(PointAdd(self.share, other), self.mac,
              PointSub(self.public_modifier, other))
add_StarkPoint(party_id, self, other) ==
    LET new_share == IF party_id = PARTY0
                     THEN PointAdd(self.share, other)
                     ELSE PointAdd(self.share, Identity)
        new_modifier == PointSub(self.public_modifier, other)
    IN  AuthPoint(new_share, self.mac, new_modifier)

\* Add<&AuthenticatedStarkPointResult> for &AuthenticatedStarkPointResult
add_Authenticated(self, other) ==
    AuthPoint(PointAdd(self.share, other.share),
              PointAdd(self.mac, other.mac),
              PointAdd(self.public_modifier, other.public_modifier))

\* Sub<&StarkPoint> for &AuthenticatedStarkPointResult
sub_StarkPoint(party_id, self, other) ==
    LET new_share == IF party_id = PARTY0
                     THEN PointSub(self.share, other)
                     ELSE PointSub(self.share, Identity)
        new_modifier == PointAdd(self.public_modifier, other)
    IN  AuthPoint(new_share, self.mac, new_modifier)

\* impl_commutative!(AuthenticatedStarkPointResult, Sub, sub, -, StarkPoint):
\* Sub<&AuthenticatedStarkPointResult> for &StarkPoint. The macro serves Add,
\* Sub and Mul alike: the operator with the public operand on the left hands
\* its operands, swapped, to the operator defined above
sub_from_StarkPoint(party_id, self, rhs) == sub_StarkPoint(party_id, rhs, self)

\* Sub<&AuthenticatedStarkPointResult> for &AuthenticatedStarkPointResult
sub_Authenticated(self, other) ==
    AuthPoint(PointSub(self.share, other.share),
              PointSub(self.mac, other.mac),
              self.public_modifier)

\* Neg for &AuthenticatedStarkPointResult
neg_Authenticated(self) ==
    AuthPoint(PointNeg(self.share), PointNeg(self.mac), self.public_modifier)

\* AuthenticatedStarkPointResult::batch_sub: one batch gate subtracts the
\* shares, the macs and the modifiers of every pair
batch_sub(a, b) ==
    [i \in 1 .. Len(a) |->
        AuthPoint(PointSub(a[i].share, b[i].share),
                  PointSub(a[i].mac, b[i].mac),
                  PointSub(a[i].public_modifier, b[i].public_modifier))]

\* AuthenticatedStarkPointResult::batch_neg: one batch gate negates every
\* argument, the modifiers included
batch_neg(a) ==
    [i \in 1 .. Len(a) |->
        AuthPoint(PointNeg(a[i].share), PointNeg(a[i].mac),
                  PointNeg(a[i].public_modifier))]

\* Mul<&Scalar> for &AuthenticatedStarkPointResult
mul_Scalar_mac_unscaled(self, other) ==
    AuthPoint(ScalarMul(other, self.share), self.mac,
              ScalarMul(other, self.public_modifier))
mul_Scalar(self, other) ==
    AuthPoint(ScalarMul(other, self.share),
              ScalarMul(other, self.mac),
              ScalarMul(other, self.public_modifier))

\* ------------------------------------------------------------------------
\* Opening
\* ------------------------------------------------------------------------

\* MpcStarkPointResult::open: the parties exchange their shares and each
\* adds its own share to the one it receives
mpc_open(my_share, peer_share) == PointAdd(my_share, peer_share)

\* HashCommitment: the commitment to (value, blinder); the hash is taken to
\* be collision free, so the commitment determines the pair
hash_commit(value, blinder) == <<value, blinder>>

\* open_authenticated, the mac_check gate:
\* key_share * (opened_value + public_modifier) - mac_share
mac_check_gate_no_modifier(mac_key_share, value, modifier, mac_share) ==
    PointSub(ScalarMul(mac_key_share, value), mac_share)
mac_check_gate_plus_mac(mac_key_share, value, modifier, mac_share) ==
    PointAdd(ScalarMul(mac_key_share, PointAdd(value, modifier)), mac_share)
mac_check_gate(mac_key_share, value, modifier, mac_share) ==
    PointSub(ScalarMul(mac_key_share, PointAdd(value, modifier)), mac_share)

\* AuthenticatedStarkPointResult::verify_mac_check
verify_mac_check_commitment_only(my_mac_share, peer_mac_share, peer_mac_commitment, peer_blinder) ==
    hash_commit(peer_mac_share, peer_blinder) = peer_mac_commitment
verify_mac_check_sum_only(my_mac_share, peer_mac_share, peer_mac_commitment, peer_blinder) ==
    PointAdd(my_mac_share, peer_mac_share) = Identity
verify_mac_check(my_mac_share, peer_mac_share, peer_mac_commitment, peer_blinder) ==
    IF hash_commit(peer_mac_share, peer_blinder) # peer_mac_commitment
    THEN FALSE
    ELSE IF PointAdd(my_mac_share, peer_mac_share) # Identity
         THEN FALSE
         ELSE TRUE

\* AuthenticatedStarkPointResult::open_authenticated as run by party_id on
\* the value of which the parties hold `views`; `keys` are the parties' MAC
\* key shares and `blinders` the commitment blinders they draw.  The result
\* is the pair of results the returned AuthenticatedStarkPointOpenResult
\* points at: the opened value and the MAC-check scalar.
open_authenticated(party_id, views, keys, blinders) ==
    LET peer == Peer(party_id)
        self == views[party_id]
        recovered_value == mpc_open(self.share, views[peer].share)
        mac_check == mac_check_gate(keys[party_id], recovered_value,
                                    self.public_modifier, self.mac)
        \* what the peer computes from its own view and sends over
        peer_recovered == mpc_open(views[peer].share, self.share)
        peer_value == mac_check_gate(keys[peer], peer_recovered,
                                     views[peer].public_modifier, views[peer].mac)
        peer_commit == hash_commit(peer_value, blinders[peer])
        peer_mac_check == peer_value
        peer_blinder == blinders[peer]
        commitment_check ==
            ScalarFromBool(verify_mac_check(mac_check, peer_mac_check,
                                            peer_commit, peer_blinder))
    IN  [value |-> recovered_value, mac_check |-> commitment_check]

\* AuthenticatedStarkPointResult::open_authenticated as run by one party on
\* its view `self`, from what it receives of the counterparty: the peer's
\* share, commitment, MAC-check value and blinder
open_authenticated_received(self, mac_key_share, peer_share, peer_commit, peer_mac_check, peer_blinder) ==
    LET recovered_value == mpc_open(self.share, peer_share)
        mac_check == mac_check_gate(mac_key_share, recovered_value,
                                    self.public_modifier, self.mac)
        commitment_check ==
            ScalarFromBool(verify_mac_check(mac_check, peer_mac_check,
                                            peer_commit, peer_blinder))
    IN  [value |-> recovered_value, my_mac_check |-> mac_check,
         mac_check |-> commitment_check]

\* open_authenticated_batch, one element of the batch gate of MAC checks:
\* mac_key_share * (value + modifier) - mac_share
batch_mac_check_no_modifier(mac_key_share, value, modifier, mac_share) ==
    PointSub(ScalarMul(mac_key_share, value), mac_share)
batch_mac_check(mac_key_share, value, modifier, mac_share) ==
    PointSub(ScalarMul(mac_key_share, PointAdd(value, modifier)), mac_share)

\* AuthenticatedStarkPointResult::open_authenticated_batch as run by
\* party_id on the batch `values` (a sequence of the parties' views)
open_authenticated_batch(party_id, values, keys, blinders) ==
    LET peer == Peer(party_id)
        n == Len(values)
        opened_values == [i \in 1 .. n |->
            mpc_open(values[i][party_id].share, values[i][peer].share)]
        mac_checks == [i \in 1 .. n |->
            batch_mac_check(keys[party_id], opened_values[i],
                            values[i][party_id].public_modifier,
                            values[i][party_id].mac)]
        peer_opened == [i \in 1 .. n |->
            mpc_open(values[i][peer].share, values[i][party_id].share)]
        peer_mac_checks == [i \in 1 .. n |->
            batch_mac_check(keys[peer], peer_opened[i],
                            values[i][peer].public_modifier,
                            values[i][peer].mac)]
        peer_blinders == [i \in 1 .. n |-> blinders[i][peer]]
        peer_comms == [i \in 1 .. n |->
            hash_commit(peer_mac_checks[i], peer_blinders[i])]
        commitment_checks == [i \in 1 .. n |->
            ScalarFromBool(verify_mac_check(mac_checks[i], peer_mac_checks[i],
                                            peer_comms[i], peer_blinders[i]))]
    IN  IF n = 0
        THEN <<>>
        ELSE [i \in 1 .. n |->
                [value |-> opened_values[i], mac_check |-> commitment_checks[i]]]

\* Future for AuthenticatedStarkPointOpenResult: what awaiting the opening
\* yields once both results are complete
Ok(value) == <<"Ok", value>>
AuthenticationError == <<"Err", "AuthenticationError">>
poll_open_result_ignores_check(res) == Ok(res.value)
poll_open_result(res) ==
    IF res.mac_check = 1 THEN Ok(res.value) ELSE AuthenticationError

\* ------------------------------------------------------------------------
\* Multiplication by an authenticated scalar
\* ------------------------------------------------------------------------

\* MpcFabric::share_scalar: the share each party holds at the result id
share_scalar_value(party_id, scalar_val, sender, random) ==
    IF party_id = sender THEN PointSub(scalar_val, random) ELSE random

\* AuthenticatedScalarResult + Scalar: party 0 adds the constant to its
\* share, the MAC stays and the modifier compensates
scalar_add_public(party_id, self, other) ==
    AuthPoint(IF party_id = PARTY0 THEN PointAdd(self.share, other) ELSE self.share,
              self.mac,
              PointSub(self.public_modifier, other))

\* AuthenticatedScalarResult - AuthenticatedScalarResult, componentwise
scalar_sub_Authenticated(self, other) ==
    AuthPoint(PointSub(self.share, other.share),
              PointSub(self.mac, other.mac),
              PointSub(self.public_modifier, other.public_modifier))

\* AuthenticatedScalarResult * StarkPoint(Result): every component of the
\* scalar times the public point
scalar_mul_point(self, point) ==
    AuthPoint(ScalarMul(self.share, point),
              ScalarMul(self.mac, point),
              ScalarMul(self.public_modifier, point))

\* MpcFabric::next_authenticated_triple: the triple (a, b, c) as party_id
\* holds it; `shares` are the shares the beaver source hands to the two
\* parties and `split` the randomness of the MAC multiplications
next_authenticated_triple(party_id, shares, keys, split) ==
    [a |-> new_shared(shares.a[party_id], MpcMul(party_id, keys, shares.a, split)),
     b |-> new_shared(shares.b[party_id], MpcMul(party_id, keys, shares.b, split)),
     c |-> new_shared(shares.c[party_id], MpcMul(party_id, keys, shares.c, split))]

\* The two parties' values of one quantity, indexed by party id
ByParty(v0, v1) == (PARTY0 :> v0) @@ (PARTY1 :> v1)

\* Mul<&AuthenticatedScalarResult> for &AuthenticatedStarkPointResult as run
\* by party_id: self and rhs are the parties' views of the point and of the
\* scalar, triple[p] the triple as party p holds it
mul_AuthenticatedScalar_no_cG(party_id, self, rhs, triple) ==
    LET generator == Generator
        bG == ByParty(scalar_mul_point(triple[PARTY0].b, generator),
                      scalar_mul_point(triple[PARTY1].b, generator))
        masked_rhs == ByParty(scalar_sub_Authenticated(rhs[PARTY0], triple[PARTY0].a),
                              scalar_sub_Authenticated(rhs[PARTY1], triple[PARTY1].a))
        masked_lhs == ByParty(sub_Authenticated(self[PARTY0], bG[PARTY0]),
                              sub_Authenticated(self[PARTY1], bG[PARTY1]))
        eG_open == mpc_open(masked_lhs[party_id].share, masked_lhs[Peer(party_id)].share)
        d_open == mpc_open(masked_rhs[party_id].share, masked_rhs[Peer(party_id)].share)
        deG == ScalarMul(d_open, eG_open)
        d_bG == mul_Scalar(bG[party_id], d_open)
        a_eG == scalar_mul_point(triple[party_id].a, eG_open)
    IN  add_Authenticated(add_StarkPoint(party_id, d_bG, deG), a_eG)
mul_AuthenticatedScalar(party_id, self, rhs, triple) ==
    LET generator == Generator
        bG == ByParty(scalar_mul_point(triple[PARTY0].b, generator),
                      scalar_mul_point(triple[PARTY1].b, generator))
        masked_rhs == ByParty(scalar_sub_Authenticated(rhs[PARTY0], triple[PARTY0].a),
                              scalar_sub_Authenticated(rhs[PARTY1], triple[PARTY1].a))
        masked_lhs == ByParty(sub_Authenticated(self[PARTY0], bG[PARTY0]),
                              sub_Authenticated(self[PARTY1], bG[PARTY1]))
        eG_open == mpc_open(masked_lhs[party_id].share, masked_lhs[Peer(party_id)].share)
        d_open == mpc_open(masked_rhs[party_id].share, masked_rhs[Peer(party_id)].share)
        deG == ScalarMul(d_open, eG_open)
        d_bG == mul_Scalar(bG[party_id], d_open)
        a_eG == scalar_mul_point(triple[party_id].a, eG_open)
        cG == scalar_mul_point(triple[party_id].c, generator)
    IN  add_Authenticated(
            add_Authenticated(add_StarkPoint(party_id, d_bG, deG), a_eG),
            cG)

\* ------------------------------------------------------------------------
\* The fabric: result ids, operation ids, the result buffer and the queues
\* ------------------------------------------------------------------------

RESULT_ZERO == 0
RESULT_ONE == 1
RESULT_IDENTITY == 2
N_CONSTANT_RESULTS == 3

\* FabricInner::new: the three constants are in the buffer, the counters at
\* their first values and no triple drawn from the beaver source
FabricInner_new_counter_at_zero(party_id) ==
    [party_id |-> party_id,
     next_result_id |-> 0,
     next_op_id |-> 0,
     results |-> (RESULT_ZERO :> 0) @@ (RESULT_ONE :> 1)
                    @@ (RESULT_IDENTITY :> Identity),
     wakers |-> <<>>,
     execution_queue |-> <<>>,
     outbound_queue |-> <<>>,
     beaver_source |-> 0]
FabricInner_new(party_id) ==
    [party_id |-> party_id,
     next_result_id |-> N_CONSTANT_RESULTS,
     next_op_id |-> 0,
     results |-> (RESULT_ZERO :> 0) @@ (RESULT_ONE :> 1)
                    @@ (RESULT_IDENTITY :> Identity),
     wakers |-> <<>>,
     execution_queue |-> <<>>,
     outbound_queue |-> <<>>,
     beaver_source |-> 0]

\* FabricInner::new_result_id: an atomic fetch-and-add on the counter
new_result_id_keeps_counter(f) == [fabric |-> f, id |-> f.next_result_id]
new_result_id(f) ==
    [fabric |-> [f EXCEPT !.next_result_id = @ + 1], id |-> f.next_result_id]

\* FabricInner::allocate_value: the value is inserted under the next id
allocate_value_keeps_counter(f, value) ==
    LET id == f.next_result_id
    IN  [fabric |-> [f EXCEPT !.results = (id :> value) @@ @],
         id |-> id]
allocate_value(f, value) ==
    LET id == f.next_result_id
    IN  [fabric |-> [f EXCEPT !.next_result_id = id + 1,
                              !.results = (id :> value) @@ @],
         id |-> id]

\* FabricInner::allocate_shared_value: my share is inserted under the next
\* id and the counterparty's share is sent, tagged with that id
allocate_shared_value_sends_my_share(f, my_share, their_share) ==
    LET id == f.next_result_id
    IN  [fabric |-> [f EXCEPT !.next_result_id = id + 1,
                              !.results = (id :> my_share) @@ @,
                              !.outbound_queue =
                                    Append(@, [result_id |-> id, payload |-> my_share])],
         id |-> id]
allocate_shared_value(f, my_share, their_share) ==
    LET id == f.next_result_id
    IN  [fabric |-> [f EXCEPT !.next_result_id = id + 1,
                              !.results = (id :> my_share) @@ @,
                              !.outbound_queue =
                                    Append(@, [result_id |-> id, payload |-> their_share])],
         id |-> id]

\* FabricInner::receive_value: a slot for a value the peer sends
receive_value(f) ==
    [fabric |-> [f EXCEPT !.next_result_id = @ + 1],
     id |-> f.next_result_id]

\* FabricInner::new_op: a result id per output, the next operation id, and
\* the operation is pushed to the executor
new_op_pushes_front(f, args, output_arity, op_type, function) ==
    LET ids == [i \in 1 .. output_arity |-> f.next_result_id + i - 1]
        op == [id |-> f.next_op_id,
               result_id |-> ids[1],
               output_arity |-> output_arity,
               args |-> args,
               inflight_args |-> 0,
               op_type |-> op_type,
               function |-> function]
    IN  [fabric |-> [f EXCEPT !.next_result_id = @ + output_arity,
                              !.next_op_id = @ + 1,
                              !.execution_queue = <<[type |-> "Op", op |-> op]>> \o @],
         ids |-> ids]
new_op_counts_args_inflight(f, args, output_arity, op_type, function) ==
    LET ids == [i \in 1 .. output_arity |-> f.next_result_id + i - 1]
        op == [id |-> f.next_op_id,
               result_id |-> ids[1],
               output_arity |-> output_arity,
               args |-> args,
               inflight_args |-> Len(args),
               op_type |-> op_type,
               function |-> function]
    IN  [fabric |-> [f EXCEPT !.next_result_id = @ + output_arity,
                              !.next_op_id = @ + 1,
                              !.execution_queue = Append(@, [type |-> "Op", op |-> op])],
         ids |-> ids]
new_op(f, args, output_arity, op_type, function) ==
    IF output_arity = 0
    THEN \* no id is taken, the operation id is, and ids[0] panics
         [fabric |-> [f EXCEPT !.next_op_id = @ + 1], ids |-> <<>>, panicked |-> TRUE]
    ELSE
    LET ids == [i \in 1 .. output_arity |-> f.next_result_id + i - 1]
        op == [id |-> f.next_op_id,
               result_id |-> ids[1],
               output_arity |-> output_arity,
               args |-> args,
               inflight_args |-> 0,
               op_type |-> op_type,
               function |-> function]
    IN  [fabric |-> [f EXCEPT !.next_result_id = @ + output_arity,
                              !.next_op_id = @ + 1,
                              !.execution_queue = Append(@, [type |-> "Op", op |-> op])],
         ids |-> ids, panicked |-> FALSE]

\* FabricInner::shutdown: the executor is told to stop
shutdown(f) == [f EXCEPT !.execution_queue = Append(@, [type |-> "Shutdown"])]

\* Future::poll of a ResultHandle, under the read lock of the results and the
\* write lock of the wakers: the value if the result is complete, and
\* otherwise the waker is registered on the id and the poll is Pending
poll_without_register(f, id, waker) ==
    IF id \in DOMAIN f.results
    THEN [fabric |-> f, ready |-> TRUE, value |-> f.results[id]]
    ELSE [fabric |-> f, ready |-> FALSE, value |-> <<>>]
poll(f, id, waker) ==
    IF id \in DOMAIN f.results
    THEN [fabric |-> f, ready |-> TRUE, value |-> f.results[id]]
    ELSE [fabric |-> [f EXCEPT !.wakers =
                        (id :> (IF id \in DOMAIN @ THEN @[id] ELSE <<>>) \o <<waker>>) @@ @],
          ready |-> FALSE, value |-> <<>>]

\* Future for AuthenticatedStarkPointOpenResult::poll: the opened value is
\* polled, then the MAC-check scalar, and the poll is Pending as long as
\* either is; with both, Ok(value) or the authentication error
poll_open_value_only(f, open, waker) ==
    LET value == poll(f, open.value, waker)
    IN  IF ~value.ready
        THEN [fabric |-> value.fabric, ready |-> FALSE, value |-> <<>>]
        ELSE [fabric |-> value.fabric, ready |-> TRUE, value |-> Ok(value.value)]
poll_open(f, open, waker) ==
    LET value == poll(f, open.value, waker)
    IN  IF ~value.ready
        THEN [fabric |-> value.fabric, ready |-> FALSE, value |-> <<>>]
        ELSE LET mac_check == poll(value.fabric, open.mac_check, waker)
             IN  IF ~mac_check.ready
                 THEN [fabric |-> mac_check.fabric, ready |-> FALSE, value |-> <<>>]
                 ELSE [fabric |-> mac_check.fabric, ready |-> TRUE,
                       value |-> poll_open_result([value |-> value.value,
                                                   mac_check |-> mac_check.value])]

\* MpcFabric::new_with_size_hint: the fabric, with the party's share of the
\* MAC key allocated as its first value
new_with_size_hint(party_id, mac_key_share) ==
    LET mac_key_id == allocate_value(FabricInner_new(party_id), mac_key_share)
    IN  [inner |-> mac_key_id.fabric, mac_key |-> mac_key_id.id]

\* MpcFabric::allocate_point
allocate_point(f, value) == allocate_value(f, value)

\* MpcFabric::new_gate_op and new_network_op
new_gate_op_as_network(f, args, function) ==
    LET ids == new_op(f, args, 1, "Network", function)
    IN  [fabric |-> ids.fabric, id |-> ids.ids[1]]
new_gate_op(f, args, function) ==
    LET ids == new_op(f, args, 1, "Gate", function)
    IN  [fabric |-> ids.fabric, id |-> ids.ids[1]]
new_network_op_as_gate(f, args, function) ==
    LET ids == new_op(f, args, 1, "Gate", function)
    IN  [fabric |-> ids.fabric, id |-> ids.ids[1]]
new_network_op(f, args, function) ==
    LET ids == new_op(f, args, 1, "Network", function)
    IN  [fabric |-> ids.fabric, id |-> ids.ids[1]]

\* The closures the operations carry, by name
FirstArg == [name |-> "first_arg", data |-> <<>>]
SumArgs == [name |-> "sum", data |-> <<>>]
MacProduct(keys, shares, split) ==
    [name |-> "mac_product", data |-> [keys |-> keys, shares |-> shares, split |-> split]]
MacCheck == [name |-> "mac_check", data |-> <<>>]
HashCommit(blinder) == [name |-> "hash_commit", data |-> blinder]
VerifyMacCheck == [name |-> "verify_mac_check", data |-> <<>>]
MoveValue(value) == [name |-> "move_value", data |-> value]
AddConstant(point) == [name |-> "add_constant", data |-> point]
SubConstant(point) == [name |-> "sub_constant", data |-> point]
AllArgs == [name |-> "all_args", data |-> <<>>]
KeyTimesShare == [name |-> "key_times_share", data |-> <<>>]
BeaverIdentity(n) == [name |-> "beaver_identity", data |-> n]
SplitBatch == [name |-> "split_batch", data |-> <<>>]
BatchMacProduct(n) == [name |-> "batch_mac_product", data |-> n]
BatchOperation(name, n) == [name |-> name, data |-> n]
BatchSum(n) == [name |-> "batch_sum", data |-> n]
BatchMacCheck(n) == [name |-> "batch_mac_check", data |-> n]
BatchVerifyMacCheck(n) == [name |-> "batch_verify_mac_check", data |-> n]
apply_function(party_id, function, inputs) ==
    CASE function.name = "first_arg" -> inputs[1]
      [] function.name = "sum" -> PointAdd(inputs[1], inputs[2])
      [] function.name = "mac_product" ->
            MpcMul(party_id, function.data.keys, function.data.shares, function.data.split)
      [] function.name = "mac_check" ->
            mac_check_gate(inputs[1], inputs[2], inputs[3], inputs[4])
      [] function.name = "hash_commit" -> hash_commit(inputs[1], function.data)
      [] function.name = "move_value" -> function.data
      [] function.name = "add_constant" -> PointAdd(inputs[1], function.data)
      [] function.name = "sub_constant" -> PointSub(inputs[1], function.data)
      [] function.name = "all_args" -> inputs
      [] function.name = "key_times_share" -> ScalarMul(inputs[1], inputs[2])
      [] function.name = "batch_sum" ->
            [i \in 1 .. function.data |->
                PointAdd(inputs[i], inputs[function.data + 1][i])]
      [] function.name = "batch_mac_check" ->
            [i \in 1 .. function.data |->
                batch_mac_check(inputs[1], inputs[3 * i - 1], inputs[3 * i],
                                inputs[3 * i + 1])]
      [] function.name = "batch_verify_mac_check" ->
            [i \in 1 .. function.data |->
                ScalarFromBool(verify_mac_check(
                    inputs[i], inputs[function.data + 1][i],
                    inputs[function.data + 3][i], inputs[function.data + 2][i]))]
      [] function.name = "verify_mac_check" ->
            ScalarFromBool(verify_mac_check(inputs[1], inputs[2], inputs[4], inputs[3]))

\* MpcFabric::send_value and receive_value
send_value(f, value) == new_network_op(f, <<value>>, FirstArg)

\* MpcFabric::exchange_value: party 0 sends then receives, party 1 receives
\* then sends; the handle is that of the received value
exchange_value_both_send_first(f, value) ==
    LET sent_value == send_value(f, value)
        received == receive_value(sent_value.fabric)
    IN  [fabric |-> received.fabric, id |-> received.id]
exchange_value(f, value) ==
    IF f.party_id = PARTY0
    THEN LET sent_value == send_value(f, value)
             received == receive_value(sent_value.fabric)
         IN  [fabric |-> received.fabric, id |-> received.id]
    ELSE LET handle == receive_value(f)
             sent_value == send_value(handle.fabric, value)
         IN  [fabric |-> sent_value.fabric, id |-> handle.id]

\* MpcFabric::share_plaintext: the sender declares a network operation with
\* no arguments whose closure yields the value, and the other party allocates
\* the slot it arrives at
share_plaintext(f, value, sender) ==
    IF f.party_id = sender
    THEN new_network_op(f, <<>>, MoveValue(value))
    ELSE receive_value(f)

\* MpcStarkPointResult::open: the shares are exchanged and a gate sums the
\* party's share and the one it received
mpc_point_open(f, share) ==
    LET received == exchange_value(f, share)
    IN  new_gate_op(received.fabric, <<share, received.id>>, SumArgs)

\* AuthenticatedStarkPointResult::new_shared on the fabric: a gate for the
\* product of the MAC key and the value, and a public modifier allocated as
\* the identity
new_shared_gates(f, mac_key_id, value, mac_function) ==
    LET mac == new_gate_op(f, <<mac_key_id, value>>, mac_function)
        public_modifier == allocate_point(mac.fabric, Identity)
    IN  [fabric |-> public_modifier.fabric,
         share |-> value, mac |-> mac.id, public_modifier |-> public_modifier.id]

\* MpcFabric::share_point on the fabric: the sender keeps val - random_point
\* and sends random_point; the other party allocates the slot it arrives at
share_point(f, mac_key_id, val, sender, random_point, mac_function) ==
    LET point == IF f.party_id = sender
                 THEN allocate_shared_value(f, PointSub(val, random_point), random_point)
                 ELSE receive_value(f)
    IN  new_shared_gates(point.fabric, mac_key_id, point.id, mac_function)

\* The next statement of a function body, given the value the statement before
\* it bound; the value is computed before the statement runs
Then(result, Continue(_)) == CASE result = result -> Continue(result)

\* Add<&StarkPoint> for &AuthenticatedStarkPointResult on the fabric: a gate
\* adds the public point to party 0's share and the identity to party 1's, the
\* mac is the result it was, and a gate subtracts the point from the modifier
add_StarkPoint_gates_party0_only(f, self, other) ==
    Then(IF f.party_id = PARTY0
         THEN new_gate_op(f, <<self.share>>, AddConstant(other))
         ELSE [fabric |-> f, id |-> self.share], LAMBDA new_share :
    Then(new_gate_op(new_share.fabric, <<self.public_modifier>>, SubConstant(other)),
         LAMBDA new_modifier :
        [fabric |-> new_modifier.fabric,
         share |-> new_share.id, mac |-> self.mac, public_modifier |-> new_modifier.id]))
add_StarkPoint_gates(f, self, other) ==
    Then(IF f.party_id = PARTY0
         THEN new_gate_op(f, <<self.share>>, AddConstant(other))
         ELSE new_gate_op(f, <<self.share>>, AddConstant(Identity)), LAMBDA new_share :
    Then(new_gate_op(new_share.fabric, <<self.public_modifier>>, SubConstant(other)),
         LAMBDA new_modifier :
        [fabric |-> new_modifier.fabric,
         share |-> new_share.id, mac |-> self.mac, public_modifier |-> new_modifier.id]))

\* Sub<&StarkPoint> for &AuthenticatedStarkPointResult on the fabric
sub_StarkPoint_gates_party0_only(f, self, other) ==
    Then(IF f.party_id = PARTY0
         THEN new_gate_op(f, <<self.share>>, SubConstant(other))
         ELSE [fabric |-> f, id |-> self.share], LAMBDA new_share :
    Then(new_gate_op(new_share.fabric, <<self.public_modifier>>, AddConstant(other)),
         LAMBDA new_modifier :
        [fabric |-> new_modifier.fabric,
         share |-> new_share.id, mac |-> self.mac, public_modifier |-> new_modifier.id]))
sub_StarkPoint_gates(f, self, other) ==
    Then(IF f.party_id = PARTY0
         THEN new_gate_op(f, <<self.share>>, SubConstant(other))
         ELSE new_gate_op(f, <<self.share>>, SubConstant(Identity)), LAMBDA new_share :
    Then(new_gate_op(new_share.fabric, <<self.public_modifier>>, AddConstant(other)),
         LAMBDA new_modifier :
        [fabric |-> new_modifier.fabric,
         share |-> new_share.id, mac |-> self.mac, public_modifier |-> new_modifier.id]))

\* MpcFabric::zero_authenticated, one_authenticated and
\* curve_identity_authenticated: handles to the constants of the fabric, and
\* for party 1's mac of one the handle of its share of the MAC key
zero_authenticated(f) ==
    [fabric |-> f, share |-> RESULT_ZERO, mac |-> RESULT_ZERO,
     public_modifier |-> RESULT_ZERO]
one_authenticated(f, mac_key_id) ==
    IF f.party_id = PARTY0
    THEN [fabric |-> f, share |-> RESULT_ZERO, mac |-> RESULT_ZERO,
          public_modifier |-> RESULT_ZERO]
    ELSE [fabric |-> f, share |-> RESULT_ONE, mac |-> mac_key_id,
          public_modifier |-> RESULT_ZERO]
curve_identity_authenticated(f) ==
    [fabric |-> f, share |-> RESULT_IDENTITY, mac |-> RESULT_IDENTITY,
     public_modifier |-> RESULT_IDENTITY]

\* HashCommitmentResult::commit: a gate hashes the value with a blinder
commit(f, value, blinder) ==
    LET commitment == new_gate_op(f, <<value>>, HashCommit(blinder))
    IN  [fabric |-> commitment.fabric,
         value |-> value, blinder |-> blinder, commitment |-> commitment.id]

\* AuthenticatedStarkPointResult::open_authenticated on the fabric: the value
\* is opened, a gate computes the MAC-check value, its commitment, the value
\* and the blinder are exchanged in that order, and a gate verifies the
\* peer's commitment and that the two MAC-check values cancel
open_authenticated_gates(f, mac_key_id, point, blinder) ==
    Then(mpc_point_open(f, point.share), LAMBDA recovered_value :
    Then(new_gate_op(recovered_value.fabric,
                     <<mac_key_id, recovered_value.id, point.public_modifier, point.mac>>,
                     MacCheck), LAMBDA mac_check :
    Then(commit(mac_check.fabric, mac_check.id, blinder), LAMBDA my_comm :
    Then(exchange_value(my_comm.fabric, my_comm.commitment), LAMBDA peer_commit :
    Then(exchange_value(peer_commit.fabric, my_comm.value), LAMBDA peer_mac_check :
    Then(allocate_value(peer_mac_check.fabric, my_comm.blinder), LAMBDA blinder_result :
    Then(exchange_value(blinder_result.fabric, blinder_result.id), LAMBDA peer_blinder :
    Then(new_gate_op(peer_blinder.fabric,
                     <<mac_check.id, peer_mac_check.id, peer_blinder.id, peer_commit.id>>,
                     VerifyMacCheck), LAMBDA commitment_check :
        [fabric |-> commitment_check.fabric,
         value |-> recovered_value.id,
         mac_check |-> commitment_check.id,
         my_mac_check |-> mac_check.id,
         my_blinder |-> blinder_result.id,
         peer_commit |-> peer_commit.id]))))))))

RECURSIVE commit_all(_, _, _)
RECURSIVE new_shared_all(_, _, _)
RECURSIVE allocate_all(_, _)

\* MpcFabric::new_batch_gate_op: one operation with output_arity results
new_batch_gate_op(f, args, output_arity, function) ==
    new_op(f, args, output_arity, "GateBatch", function)

\* MpcFabric::send_values: one network operation whose payload is the batch
send_values(f, values) == new_network_op(f, values, AllArgs)

\* MpcFabric::exchange_values: party 0 sends then receives, party 1 receives
\* then sends; the handle is that of the received batch
exchange_values_one_more_per_value(f, values) ==
    Then(send_values(f, values), LAMBDA sent_values :
    Then(receive_value(sent_values.fabric), LAMBDA received :
        IF Len(values) > 1
        THEN exchange_value(received.fabric, values[2])
        ELSE [fabric |-> received.fabric, id |-> received.id]))
exchange_values(f, values) ==
    IF f.party_id = PARTY0
    THEN Then(send_values(f, values), LAMBDA sent_values :
         Then(receive_value(sent_values.fabric), LAMBDA received :
            [fabric |-> received.fabric, id |-> received.id]))
    ELSE Then(receive_value(f), LAMBDA handle :
         Then(send_values(handle.fabric, values), LAMBDA sent_values :
            [fabric |-> sent_values.fabric, id |-> handle.id]))

\* MpcStarkPointResult::open_batch: the shares are exchanged as one batch and
\* a batch gate sums each share with the one received for it
mpc_point_open_batch(f, shares) ==
    Then(exchange_values(f, shares), LAMBDA received :
        new_batch_gate_op(received.fabric, Append(shares, received.id),
                          Len(shares), BatchSum(Len(shares))))

\* HashCommitmentResult::commit of every value of a batch, in order
commit_all(f, values, blinder) ==
    IF values = <<>>
    THEN [fabric |-> f, comms |-> <<>>]
    ELSE Then(commit(f, Head(values), blinder), LAMBDA comm :
         Then(commit_all(comm.fabric, Tail(values), blinder), LAMBDA rest :
            [fabric |-> rest.fabric,
             comms |-> <<[value |-> comm.value, blinder |-> comm.blinder,
                          commitment |-> comm.commitment]>> \o rest.comms]))

\* MpcFabric::allocate_scalar of every value of a batch, in order
allocate_all(f, values) ==
    IF values = <<>>
    THEN [fabric |-> f, ids |-> <<>>]
    ELSE Then(allocate_value(f, Head(values)), LAMBDA first :
         Then(allocate_all(first.fabric, Tail(values)), LAMBDA rest :
            [fabric |-> rest.fabric, ids |-> <<first.id>> \o rest.ids]))

\* The arguments of the batch gate of MAC checks: the MAC key, then for each
\* value its opening, its public modifier and its mac
mac_check_deps(mac_key_id, opened_values, values) ==
    <<mac_key_id>> \o
    [j \in 1 .. 3 * Len(values) |->
        LET i == ((j - 1) \div 3) + 1
        IN  CASE (j - 1) % 3 = 0 -> opened_values[i]
              [] (j - 1) % 3 = 1 -> values[i].public_modifier
              [] (j - 1) % 3 = 2 -> values[i].mac]

\* AuthenticatedStarkPointResult::open_authenticated_batch on the fabric: the
\* shares are opened as a batch, a batch gate computes the MAC-check values,
\* each is committed to, the commitments, the MAC-check values and the
\* blinders are exchanged as batches, and a batch gate verifies them
open_authenticated_batch_gates(f, mac_key_id, values, blinder) ==
    IF values = <<>>
    THEN [fabric |-> f, opens |-> <<>>]
    ELSE
    Then(mpc_point_open_batch(f, [i \in 1 .. Len(values) |-> values[i].share]),
         LAMBDA opened_values :
    Then(new_batch_gate_op(opened_values.fabric,
                           mac_check_deps(mac_key_id, opened_values.ids, values),
                           Len(values), BatchMacCheck(Len(values))), LAMBDA mac_checks :
    Then(commit_all(mac_checks.fabric, mac_checks.ids, blinder), LAMBDA my_comms :
    Then(exchange_values(my_comms.fabric,
                         [i \in 1 .. Len(values) |-> my_comms.comms[i].commitment]),
         LAMBDA peer_comms :
    Then(exchange_values(peer_comms.fabric, mac_checks.ids), LAMBDA peer_mac_checks :
    Then(allocate_all(peer_mac_checks.fabric,
                      [i \in 1 .. Len(values) |-> my_comms.comms[i].blinder]),
         LAMBDA blinders :
    Then(exchange_values(blinders.fabric, blinders.ids), LAMBDA peer_blinders :
    Then(new_batch_gate_op(peer_blinders.fabric,
                           [i \in 1 .. Len(values) |-> my_comms.comms[i].value]
                               \o <<peer_mac_checks.id, peer_blinders.id, peer_comms.id>>,
                           Len(values), BatchVerifyMacCheck(Len(values))),
         LAMBDA commitment_checks :
        [fabric |-> commitment_checks.fabric,
         opens |-> [i \in 1 .. Len(values) |->
                        [value |-> opened_values.ids[i],
                         mac_check |-> commitment_checks.ids[i]]]]))))))))

\* The beaver source: both parties' sources are coordinated, and the k-th
\* triple drawn is this party's shares of (a, b, a * b) with a = k and
\* b = k + 1
triplet(party_id, k) ==
    LET a == k % FieldOrder
        b == (k + 1) % FieldOrder
        clear == <<a, b, ScalarMul(a, b)>>
    IN  [i \in 1 .. 3 |-> IF party_id = PARTY0 THEN PointSub(clear[i], 1) ELSE 1]
next_triplet(f) ==
    [fabric |-> [f EXCEPT !.beaver_source = @ + 1],
     triplet |-> triplet(f.party_id, f.beaver_source + 1)]
next_triplet_batch(f, n) ==
    [fabric |-> [f EXCEPT !.beaver_source = @ + n],
     triplets |-> [i \in 1 .. n |-> triplet(f.party_id, f.beaver_source + i)]]

\* AuthenticatedScalarResult::new_shared of every value of a batch, in order
new_shared_all(f, mac_key_id, values) ==
    IF values = <<>>
    THEN [fabric |-> f, shared |-> <<>>]
    ELSE Then(new_shared_gates(f, mac_key_id, Head(values), KeyTimesShare), LAMBDA first :
         Then(new_shared_all(first.fabric, mac_key_id, Tail(values)), LAMBDA rest :
            [fabric |-> rest.fabric,
             shared |-> <<[share |-> first.share, mac |-> first.mac,
                           public_modifier |-> first.public_modifier]>> \o rest.shared]))

\* MpcFabric::next_authenticated_triple: the next triple is drawn under the
\* lock of the beaver source, its three values are allocated and each is
\* wrapped as an authenticated scalar
next_authenticated_triple_draws_twice(f, mac_key_id) ==
    Then(next_triplet(next_triplet(f).fabric), LAMBDA drawn :
    Then(allocate_all(drawn.fabric, drawn.triplet), LAMBDA allocated :
    Then(new_shared_all(allocated.fabric, mac_key_id, allocated.ids), LAMBDA triple :
        [fabric |-> triple.fabric, triples |-> <<triple.shared>>])))
next_authenticated_triple_gates(f, mac_key_id) ==
    Then(next_triplet(f), LAMBDA drawn :
    Then(allocate_all(drawn.fabric, drawn.triplet), LAMBDA allocated :
    Then(new_shared_all(allocated.fabric, mac_key_id, allocated.ids), LAMBDA triple :
        [fabric |-> triple.fabric, triples |-> <<triple.shared>>])))

\* MpcFabric::next_authenticated_triple_batch: n triples are drawn under one
\* lock of the beaver source; the a values are allocated, then the b values,
\* then the c values, and each batch is wrapped
next_authenticated_triple_batch_gates(f, mac_key_id, n) ==
    Then(next_triplet_batch(f, n), LAMBDA drawn :
    Then(allocate_all(drawn.fabric, [i \in 1 .. n |-> drawn.triplets[i][1]]), LAMBDA a :
    Then(allocate_all(a.fabric, [i \in 1 .. n |-> drawn.triplets[i][2]]), LAMBDA b :
    Then(allocate_all(b.fabric, [i \in 1 .. n |-> drawn.triplets[i][3]]), LAMBDA c :
    Then(new_shared_all(c.fabric, mac_key_id, a.ids), LAMBDA beaver_a :
    Then(new_shared_all(beaver_a.fabric, mac_key_id, b.ids), LAMBDA beaver_b :
    Then(new_shared_all(beaver_b.fabric, mac_key_id, c.ids), LAMBDA beaver_c :
        [fabric |-> beaver_c.fabric,
         triples |-> [i \in 1 .. n |->
                        <<beaver_a.shared[i], beaver_b.shared[i], beaver_c.shared[i]>>]])))))))

\* The rest of a multiplication by the beaver trick: the masked scalars and
\* the masked points are each opened in one exchange, and a batch gate
\* combines the openings and the triples into the three results of every
\* product
beaver_identity_gates(f, points, scalars, triples) ==
    LET n == Len(points)
        shares(values) == [i \in 1 .. n |-> values[i].share]
        triple_ids == [j \in 1 .. 9 * n |->
            LET t == triples[((j - 1) \div 9) + 1][(((j - 1) % 9) \div 3) + 1]
            IN  CASE (j - 1) % 3 = 0 -> t.share
                  [] (j - 1) % 3 = 1 -> t.mac
                  [] (j - 1) % 3 = 2 -> t.public_modifier]
    IN  Then(exchange_values(f, shares(points)), LAMBDA eG_open :
        Then(exchange_values(eG_open.fabric, shares(scalars)), LAMBDA d_open :
        Then(new_batch_gate_op(d_open.fabric,
                               <<eG_open.id, d_open.id>> \o triple_ids,
                               3 * n, BeaverIdentity(n)), LAMBDA product :
            [fabric |-> product.fabric,
             products |-> [i \in 1 .. n |->
                            [share |-> product.ids[3 * i - 2],
                             mac |-> product.ids[3 * i - 1],
                             public_modifier |-> product.ids[3 * i]]]])))

\* Mul<&AuthenticatedScalarResult> for &AuthenticatedStarkPointResult on the
\* fabric: one triple is drawn
mul_AuthenticatedScalar_gates(f, mac_key_id, self, rhs) ==
    Then(next_authenticated_triple_gates(f, mac_key_id), LAMBDA triple :
    Then(beaver_identity_gates(triple.fabric, <<self>>, <<rhs>>, triple.triples),
         LAMBDA product :
        [fabric |-> product.fabric, products |-> product.products,
         triples |-> triple.triples]))

\* AuthenticatedStarkPointResult::batch_mul on the fabric: nothing for empty
\* batches, and otherwise one triple is drawn for every pair
batch_mul_gates(f, mac_key_id, a, b) ==
    IF a = <<>>
    THEN [fabric |-> f, products |-> <<>>, triples |-> <<>>]
    ELSE Then(next_authenticated_triple_batch_gates(f, mac_key_id, Len(a)), LAMBDA triple :
         Then(beaver_identity_gates(triple.fabric, b, a, triple.triples),
              LAMBDA product :
            [fabric |-> product.fabric, products |-> product.products,
             triples |-> triple.triples]))

\* AuthenticatedStarkPointResult::new_shared_batch: nothing for an empty
\* batch; otherwise the macs are one batched product with the MAC key and
\* every modifier is the identity constant
new_shared_batch(f, mac_key_id, values) ==
    IF values = <<>>
    THEN [fabric |-> f, shared |-> <<>>]
    ELSE Then(new_batch_gate_op(f, <<mac_key_id>> \o values, Len(values),
                                BatchMacProduct(Len(values))), LAMBDA macs :
            [fabric |-> macs.fabric,
             shared |-> [i \in 1 .. Len(values) |->
                            [share |-> values[i], mac |-> macs.ids[i],
                             public_modifier |-> RESULT_IDENTITY]]])

\* AuthenticatedStarkPointResult::new_shared_from_batch_result: a batch gate
\* of n outputs splits the batch result, whatever n is
new_shared_from_batch_result(f, mac_key_id, values, n) ==
    Then(new_batch_gate_op(f, <<values>>, n, SplitBatch), LAMBDA points :
        IF points.panicked
        THEN [fabric |-> points.fabric, shared |-> <<>>, panicked |-> TRUE]
        ELSE Then(new_shared_batch(points.fabric, mac_key_id, points.ids), LAMBDA batch :
                [fabric |-> batch.fabric, shared |-> batch.shared, panicked |-> FALSE]))

\* MpcFabric::batch_share_point: the sender allocates the batch of its shares
\* as one shared value, the receiver a slot for it, and the batch result is
\* split into n authenticated points
batch_share_point(f, mac_key_id, vals, sender, random_points) ==
    LET n == Len(vals)
        shares == IF f.party_id = sender
                  THEN allocate_shared_value(f,
                            [i \in 1 .. n |-> PointSub(vals[i], random_points[i])],
                            random_points)
                  ELSE receive_value(f)
    IN  new_shared_from_batch_result(shares.fabric, mac_key_id, shares.id, n)

\* The ids of a batch of authenticated values, flattened
flat_ids(a) ==
    [j \in 1 .. 3 * Len(a) |->
        LET value == a[((j - 1) \div 3) + 1]
        IN  CASE (j - 1) % 3 = 0 -> value.share
              [] (j - 1) % 3 = 1 -> value.mac
              [] (j - 1) % 3 = 2 -> value.public_modifier]

\* batch_add, batch_add_public, batch_sub, batch_sub_public, batch_neg,
\* batch_mul_public and batch_mul_generator on the fabric: nothing for an
\* empty batch, and otherwise one batch gate over the operands with three
\* outputs for every element
batch_gate_operation(f, name, a, b) ==
    IF a = <<>>
    THEN [fabric |-> f, out |-> <<>>]
    ELSE Then(new_batch_gate_op(f, flat_ids(a) \o flat_ids(b), 3 * Len(a),
                                BatchOperation(name, Len(a))), LAMBDA res :
            [fabric |-> res.fabric,
             out |-> [i \in 1 .. Len(a) |->
                        [share |-> res.ids[3 * i - 2], mac |-> res.ids[3 * i - 1],
                         public_modifier |-> res.ids[3 * i]]]])

\* ------------------------------------------------------------------------
\* The executor and the network sender
\* ------------------------------------------------------------------------

\* The executor's state with the fabric it serves, and the dispatches it has
\* made: the operation, the argument values its closure was invoked with, and
\* whether the operation had waited for an argument
ExecutorState(inner, operations, dependents, dispatched) ==
    [inner |-> inner, operations |-> operations, dependents |-> dependents,
     dispatched |-> dispatched]

Without(fn, key) == [k \in DOMAIN fn \ {key} |-> fn[k]]
Lookup(fn, key, default) == IF key \in DOMAIN fn THEN fn[key] ELSE default
Range(seq) == {seq[k] : k \in 1 .. Len(seq)}

RECURSIVE handle_new_result(_, _, _)
RECURSIVE wake_dependents(_, _)
RECURSIVE execute_operation(_, _)
RECURSIVE place_outputs(_, _, _)

\* Fulfilling a result: the value is inserted, then every dependent has its
\* in-flight count decremented and those that reach zero are dispatched
handle_new_result(st, id, value) ==
    LET dependents == Lookup(st.dependents, id, <<>>)
        inserted == [st EXCEPT !.inner.results = (id :> value) @@ @,
                               !.dependents = Without(@, id)]
    IN  wake_dependents(inserted, dependents)

wake_dependents(st, dependents) ==
    IF dependents = <<>>
    THEN st
    ELSE LET op == st.operations[Head(dependents)]
             inflight_args == op.inflight_args - 1
             decremented == [st EXCEPT
                                !.operations[op.id].inflight_args = inflight_args]
             woken == IF inflight_args = 0
                      THEN execute_operation(decremented, op)
                      ELSE decremented
         IN  wake_dependents(woken, Tail(dependents))

\* Operation::result_ids: the ids of the outputs of an operation
result_ids(op) == [i \in 1 .. op.output_arity |-> op.result_id + i - 1]

\* The outputs of a batch gate are placed at its result ids, in order
place_outputs(st, ids, outputs) ==
    IF ids = <<>>
    THEN st
    ELSE place_outputs(handle_new_result(st, Head(ids), Head(outputs)),
                       Tail(ids), Tail(outputs))

\* Dispatch: a gate's value is placed at its result id; a network operation's
\* payload is enqueued for the peer, tagged with its result id, and the local
\* result is left unfulfilled
execute_operation_fulfils_network(st, op) ==
    LET inputs == [i \in 1 .. Len(op.args) |-> st.inner.results[op.args[i]]]
        output == apply_function(st.inner.party_id, op.function, inputs)
        dispatched == [st EXCEPT !.operations = Without(@, op.id),
                                 !.dispatched = Append(@, [id |-> op.id, inputs |-> inputs,
                                                           waited |-> op.inflight_args > 0])]
    IN  IF op.op_type = "Network"
        THEN handle_new_result(
                [dispatched EXCEPT !.inner.outbound_queue =
                    Append(@, [result_id |-> op.result_id, payload |-> output])],
                op.result_id, output)
        ELSE IF op.op_type = "GateBatch"
        THEN place_outputs(dispatched, result_ids(op), output)
        ELSE handle_new_result(dispatched, op.result_id, output)
execute_operation(st, op) ==
    LET inputs == [i \in 1 .. Len(op.args) |-> st.inner.results[op.args[i]]]
        output == apply_function(st.inner.party_id, op.function, inputs)
        dispatched == [st EXCEPT !.operations = Without(@, op.id),
                                 !.dispatched = Append(@, [id |-> op.id, inputs |-> inputs,
                                                           waited |-> op.inflight_args > 0])]
    IN  IF op.op_type = "Network"
        THEN [dispatched EXCEPT !.inner.outbound_queue =
                    Append(@, [result_id |-> op.result_id, payload |-> output])]
        ELSE IF op.op_type = "GateBatch"
        THEN place_outputs(dispatched, result_ids(op), output)
        ELSE handle_new_result(dispatched, op.result_id, output)

\* A newly declared operation: it is dispatched if every argument is complete,
\* and otherwise recorded as a dependent of each argument that is not
handle_new_operation_one_entry_per_id(st, op) ==
    LET inflight == {i \in 1 .. Len(op.args) : op.args[i] \notin DOMAIN st.inner.results}
        pending == {op.args[i] : i \in inflight}
        entries(id) == <<op.id>>
    IN  IF inflight = {}
        THEN execute_operation(st, op)
        ELSE [st EXCEPT
                !.operations = (op.id :> [op EXCEPT !.inflight_args = Cardinality(inflight)]) @@ @,
                !.dependents = [id \in DOMAIN @ \cup pending |->
                                    Lookup(@, id, <<>>) \o
                                    (IF id \in pending THEN entries(id) ELSE <<>>)]]
handle_new_operation(st, op) ==
    LET inflight == {i \in 1 .. Len(op.args) : op.args[i] \notin DOMAIN st.inner.results}
        pending == {op.args[i] : i \in inflight}
        entries(id) == [k \in 1 .. Cardinality({i \in inflight : op.args[i] = id}) |-> op.id]
    IN  IF inflight = {}
        THEN execute_operation(st, op)
        ELSE [st EXCEPT
                !.operations = (op.id :> [op EXCEPT !.inflight_args = Cardinality(inflight)]) @@ @,
                !.dependents = [id \in DOMAIN @ \cup pending |->
                                    Lookup(@, id, <<>>) \o
                                    (IF id \in pending THEN entries(id) ELSE <<>>)]]

\* One message of the execution queue
handle_message(st, message) ==
    IF message.type = "Op"
    THEN handle_new_operation(st, message.op)
    ELSE handle_new_result(st, message.id, message.value)

\* The executor's loop runs until it has handled a Shutdown message
executor_loops_after_shutdown(running) == TRUE
executor_loops(running) == running

\* Waking on the fulfilment of ids: their wakers are taken from the map, and a
\* suspended task whose waker is among them is scheduled to poll again
remove_wakers(wakers, ids) == [id \in DOMAIN wakers \ ids |-> wakers[id]]
wake(task, wakers, ids) ==
    IF /\ task.status = "suspended"
       /\ \E id \in ids \cap DOMAIN wakers : task.name \in Range(wakers[id])
    THEN [task EXCEPT !.status = "polling"]
    ELSE task

\* ------------------------------------------------------------------------
\* State of a two-party computation on authenticated points
\* ------------------------------------------------------------------------

\* The program holds two authenticated points: X, which it computes on, and
\* Y, a second shared input
Reg == {"X", "Y"}
\* The longest batch handed to open_authenticated_batch
MaxBatch == 2

VARIABLES
    mac_key,        \* mac_key[p]: party p's share of the MAC key
    shared,         \* the registers that hold a value
    pts,            \* pts[r][p]: what party p holds of the value in r
    clear,          \* clear[r]: the same operations applied to the cleartext
    hist,           \* which operators produced X: "fresh", "linear", "any", "mul"...
    tampered,       \* <<>>, or the corruption a test helper made of X
    open_res,       \* <<>>, or the result of X.open() on each party
    open_auth_res,  \* per register <<>>, or the result of open_authenticated()
    open_batch_res, \* <<>>, or the batch and the results of its batch opening
    scl,            \* <<>>, or the authenticated scalar the program holds
    linked,         \* whether the two fabrics are each other's counterparty
    prog,           \* the sequence of fabric calls the user code makes
    pc,             \* pc[n]: the next call of prog that fabric n's user makes
    fabric,         \* fabric[n]: the FabricInner of fabric n
    executor,       \* executor[n]: the operations and dependents of its executor
    sent,           \* sent[n]: the result ids written to the transport, in order
    call_log,       \* call_log[n][i]: the ids that call i was given on fabric n
    tasks,          \* tasks[n]: the task of fabric n's user that awaits a handle
    signal,         \* signal[n]: fabric n's shutdown signal has been broadcast
    callers         \* callers[c]: the thread c that calls into fabric 0

algVars == <<mac_key, shared, pts, clear, hist, tampered,
             open_res, open_auth_res, open_batch_res, scl>>

fabVars == <<linked, prog, pc, fabric, executor, sent, call_log, tasks, signal, callers>>

NoPoint == [p \in Party |-> AuthPoint(Identity, Identity, Identity)]

InitAlg ==
    /\ mac_key \in [Party -> Zp]
    /\ shared = {}
    /\ pts = [r \in Reg |-> NoPoint]
    /\ clear = [r \in Reg |-> Identity]
    /\ hist = "fresh"
    /\ tampered = <<>>
    /\ open_res = <<>>
    /\ open_auth_res = [r \in Reg |-> <<>>]
    /\ open_batch_res = <<>>
    /\ scl = <<>>

\* No fabric call is made
InitNoFabric ==
    /\ linked = FALSE
    /\ prog = <<>>
    /\ pc = <<>>
    /\ fabric = <<>>
    /\ executor = <<>>
    /\ sent = <<>>
    /\ call_log = <<>>
    /\ tasks = <<>>
    /\ signal = <<>>
    /\ callers = <<>>

\* Nothing has been opened yet: the program is still building its circuit
Building ==
    /\ open_res = <<>>
    /\ \A r \in Reg : open_auth_res[r] = <<>>
    /\ open_batch_res = <<>>

Honest == tampered = <<>>

\* share_point(val, sender) on both parties, into register r; random_point
\* is the sender's random share and split the randomness of the MAC product
SharePoint(r, val, sender, random_point, split) ==
    /\ Building /\ Honest
    /\ r \notin shared
    /\ LET value == [p \in Party |->
                        share_point_value(p, val, sender, random_point)]
       IN  pts' = [pts EXCEPT ![r] = [p \in Party |->
                        new_shared(value[p], MpcMul(p, mac_key, value, split))]]
    /\ shared' = shared \cup {r}
    /\ clear' = [clear EXCEPT ![r] = val]
    /\ UNCHANGED <<mac_key, hist, tampered, open_res, open_auth_res, open_batch_res, scl, fabVars>>

\* A local operation replaces X on both parties
Apply(new, new_clear, new_hist) ==
    /\ pts' = [pts EXCEPT !["X"] = new]
    /\ clear' = [clear EXCEPT !["X"] = new_clear]
    /\ hist' = new_hist
    /\ UNCHANGED <<mac_key, shared, tampered, open_res, open_auth_res, open_batch_res, scl, fabVars>>

Linear == IF hist \in {"fresh", "linear"} THEN "linear" ELSE "any"

\* X = X + other, for a public point
AddPublic(other) ==
    /\ Building /\ Honest /\ "X" \in shared
    /\ Apply([p \in Party |-> add_StarkPoint(p, pts["X"][p], other)],
             PointAdd(clear["X"], other), Linear)

\* X = X - other, for a public point
SubPublic(other) ==
    /\ Building /\ Honest /\ "X" \in shared
    /\ Apply([p \in Party |-> sub_StarkPoint(p, pts["X"][p], other)],
             PointSub(clear["X"], other), "any")

\* X = X + r, for an authenticated point
AddAuthenticated(r) ==
    /\ Building /\ Honest /\ "X" \in shared /\ r \in shared
    /\ Apply([p \in Party |-> add_Authenticated(pts["X"][p], pts[r][p])],
             PointAdd(clear["X"], clear[r]), Linear)

\* X = X - r, for an authenticated point
SubAuthenticated(r) ==
    /\ Building /\ Honest /\ "X" \in shared /\ r \in shared
    /\ Apply([p \in Party |-> sub_Authenticated(pts["X"][p], pts[r][p])],
             PointSub(clear["X"], clear[r]), "any")

\* X = -X
Negate ==
    /\ Building /\ Honest /\ "X" \in shared
    /\ Apply([p \in Party |-> neg_Authenticated(pts["X"][p])],
             PointNeg(clear["X"]), "any")

\* X = X * other, for a public scalar
MulPublic(other) ==
    /\ Building /\ Honest /\ "X" \in shared
    /\ Apply([p \in Party |-> mul_Scalar(pts["X"][p], other)],
             ScalarMul(other, clear["X"]), Linear)

\* X = a * X + b * Y + c, for public scalars a, b and a public point c
LinearCombination(a, b, c) ==
    /\ Building /\ Honest /\ shared = Reg
    /\ Apply([p \in Party |->
                add_StarkPoint(p,
                    add_Authenticated(mul_Scalar(pts["X"][p], a),
                                      mul_Scalar(pts["Y"][p], b)),
                    c)],
             PointAdd(PointAdd(ScalarMul(a, clear["X"]), ScalarMul(b, clear["Y"])), c),
             Linear)

\* test_helpers::modify_mac, modify_share and modify_public_modifier, called
\* by one party on the value it has just been given by share_point
Corrupt(party, component, new) ==
    /\ Building /\ Honest /\ shared = {"X"} /\ hist = "fresh"
    /\ tampered' = <<[party |-> party, component |-> component,
                      before |-> pts["X"][party]]>>
    /\ UNCHANGED <<mac_key, shared, clear, hist, open_res, open_auth_res, open_batch_res, scl, fabVars>>

ModifyMac(party, new_mac) ==
    /\ Corrupt(party, "mac", new_mac)
    /\ pts' = [pts EXCEPT !["X"][party].mac = new_mac]

ModifyShare(party, new_share) ==
    /\ Corrupt(party, "share", new_share)
    /\ pts' = [pts EXCEPT !["X"][party].share = new_share]

ModifyPublicModifier(party, new_modifier) ==
    /\ Corrupt(party, "public_modifier", new_modifier)
    /\ pts' = [pts EXCEPT !["X"][party].public_modifier = new_modifier]

\* The blinders a party may draw for its commitment
Blinder == {0, 1}

\* X.open() on both parties
Open ==
    /\ Building /\ "X" \in shared
    /\ open_res' = <<[p \in Party |->
                        mpc_open(pts["X"][p].share, pts["X"][Peer(p)].share)]>>
    /\ UNCHANGED <<mac_key, shared, pts, clear, hist, tampered,
                   open_auth_res, open_batch_res, scl, fabVars>>

\* r.open_authenticated() on both parties
OpenAuthenticated(r) ==
    /\ r \in shared
    /\ open_res # <<>> /\ open_auth_res[r] = <<>> /\ open_batch_res = <<>>
    /\ r = "Y" => open_auth_res["X"] # <<>>
    /\ \E blinders \in [Party -> Blinder] :
        open_auth_res' = [open_auth_res EXCEPT ![r] =
            <<[p \in Party |-> open_authenticated(p, pts[r], mac_key, blinders)]>>]
    /\ UNCHANGED <<mac_key, shared, pts, clear, hist, tampered, open_res, open_batch_res, scl, fabVars>>

Batches == UNION {[1 .. n -> Reg] : n \in 0 .. MaxBatch}

\* open_authenticated_batch(batch) on both parties
OpenAuthenticatedBatch(batch) ==
    /\ shared # {}
    /\ \A i \in 1 .. Len(batch) : batch[i] \in shared
    /\ \A r \in shared : open_auth_res[r] # <<>>
    /\ open_batch_res = <<>>
    /\ \E blinder \in [Party -> Blinder] :
        LET values == [i \in 1 .. Len(batch) |-> pts[batch[i]]]
            blinders == [i \in 1 .. Len(batch) |-> blinder]
        IN  open_batch_res' =
                <<[batch |-> batch,
                   res |-> [p \in Party |->
                        open_authenticated_batch(p, values, mac_key, blinders)]]>>
    /\ UNCHANGED <<mac_key, shared, pts, clear, hist, tampered, open_res, open_auth_res, scl, fabVars>>

\* share_scalar(val, sender) on both parties
ShareScalar(val, sender) ==
    /\ Building /\ Honest /\ scl = <<>> /\ "X" \in shared
    /\ hist \in {"fresh", "linear"}
    /\ \E random \in Rand :
        LET value == [p \in Party |-> share_scalar_value(p, val, sender, random)]
        IN  scl' = <<[views |-> [p \in Party |->
                            new_shared(value[p], MpcMul(p, mac_key, value, random))],
                      clear |-> val]>>
    /\ UNCHANGED <<mac_key, shared, pts, clear, hist, tampered,
                   open_res, open_auth_res, open_batch_res, fabVars>>

\* The scalar plus a public scalar
ScalarAddPublic(other) ==
    /\ Building /\ Honest /\ scl # <<>>
    /\ scl[1].views[PARTY0].public_modifier = 0
    /\ other # 0
    /\ scl' = <<[views |-> [p \in Party |->
                        scalar_add_public(p, scl[1].views[p], other)],
                 clear |-> PointAdd(scl[1].clear, other)]>>
    /\ UNCHANGED <<mac_key, shared, pts, clear, hist, tampered,
                   open_res, open_auth_res, open_batch_res, fabVars>>

\* X = X * scalar, with the next triple of the beaver source: cleartext
\* (a, b, a * b), of which party 0 is handed the shares `random`
MulAuthenticated(a, b, random) ==
    /\ Building /\ Honest /\ scl # <<>> /\ "X" \in shared
    /\ LET c == ScalarMul(a, b)
           shares == [a |-> ByParty(random, PointSub(a, random)),
                      b |-> ByParty(random, PointSub(b, random)),
                      c |-> ByParty(random, PointSub(c, random))]
           triple == ByParty(next_authenticated_triple(PARTY0, shares, mac_key, random),
                             next_authenticated_triple(PARTY1, shares, mac_key, random))
       IN  pts' = [pts EXCEPT !["X"] =
                    ByParty(mul_AuthenticatedScalar(PARTY0, pts["X"], scl[1].views, triple),
                            mul_AuthenticatedScalar(PARTY1, pts["X"], scl[1].views, triple))]
    /\ clear' = [clear EXCEPT !["X"] = ScalarMul(scl[1].clear, clear["X"])]
    /\ hist' = IF /\ pts["X"][PARTY0].public_modifier # Identity
                  /\ scl[1].views[PARTY0].public_modifier # 0
               THEN "mul_modified" ELSE "mul"
    /\ scl' = <<>>
    /\ UNCHANGED <<mac_key, shared, tampered, open_res, open_auth_res, open_batch_res, fabVars>>

\* The local operations of the algebra, on values given by share_point
NextAlg ==
    \/ \E r \in Reg, val \in Zp, sender \in Party, random_point \in Rand, split \in Rand :
            SharePoint(r, val, sender, random_point, split)
    \/ \E other \in Zp : AddPublic(other)
    \/ \E other \in Zp : SubPublic(other)
    \/ \E r \in Reg : AddAuthenticated(r)
    \/ \E r \in Reg : SubAuthenticated(r)
    \/ Negate
    \/ \E other \in Zp : MulPublic(other)
    \/ \E a \in Zp, b \in Zp, c \in Zp : LinearCombination(a, b, c)

\* Sharing, a linear combination, a corruption by a test helper, and the
\* openings
NextOpen ==
    \/ \E val \in Zp, sender \in Party, random_point \in Rand, split \in Rand :
            SharePoint("X", val, sender, random_point, split)
    \/ \E val \in Zp, sender \in Party, random \in Rand :
            SharePoint("Y", val, sender, random, random)
    \/ \E a \in Zp, b \in Zp, c \in Zp : LinearCombination(a, b, c)
    \/ \E party \in Party, new \in Zp : ModifyMac(party, new)
    \/ \E party \in Party, new \in Zp : ModifyShare(party, new)
    \/ \E party \in Party, new \in Zp : ModifyPublicModifier(party, new)
    \/ Open
    \/ \E r \in Reg : OpenAuthenticated(r)
    \/ \E batch \in Batches : OpenAuthenticatedBatch(batch)

\* X = X + other on a value that sharing and public additions have made
AddPublicToLinear(other) ==
    /\ hist \in {"fresh", "linear"}
    /\ AddPublic(other)

\* X = -X as the last operation before the opening
NegateLast ==
    /\ Building /\ Honest /\ "X" \in shared
    /\ hist \in {"fresh", "linear"}
    /\ Apply([p \in Party |-> neg_Authenticated(pts["X"][p])],
             PointNeg(clear["X"]), "neg")

\* X = a - b, for authenticated points a and b, as the last operation before
\* the opening
SubtractLast(a, b) ==
    /\ Building /\ Honest /\ a \in shared /\ b \in shared
    /\ hist \in {"fresh", "linear"}
    /\ Apply([p \in Party |-> sub_Authenticated(pts[a][p], pts[b][p])],
             PointSub(clear[a], clear[b]), "sub")

\* Points are shared, public points are added to X, one negation or one
\* subtraction of authenticated points follows, and the result is opened
NextLocal ==
    \/ \E r \in Reg, val \in Zp, sender \in Party, random \in Rand :
            SharePoint(r, val, sender, random, random)
    \/ \E other \in Zp : AddPublicToLinear(other)
    \/ NegateLast
    \/ \E a \in Reg, b \in Reg : SubtractLast(a, b)
    \/ Open
    \/ OpenAuthenticated("X")

\* The point plus a public point, before the scalar is shared
AddPublicToFresh(other) ==
    /\ hist = "fresh" /\ scl = <<>> /\ other # Identity
    /\ AddPublic(other)

\* open() of the product
OpenProduct ==
    /\ hist \in {"mul", "mul_modified"}
    /\ Open

\* Party 0 shares a point and party 1 a scalar, a public value may be added
\* to each, then their product by the Beaver protocol and its openings
NextMul ==
    \/ \E val \in Zp, random_point \in Rand, split \in Rand :
            SharePoint("X", val, PARTY0, random_point, split)
    \/ \E other \in Zp : AddPublicToFresh(other)
    \/ \E val \in Zp : ShareScalar(val, PARTY1)
    \/ \E other \in Zp : ScalarAddPublic(other)
    \/ \E a \in Zp, b \in Zp, random \in Rand : MulAuthenticated(a, b, random)
    \/ OpenProduct
    \/ OpenAuthenticated("X")

\* ------------------------------------------------------------------------
\* Two fabrics running the same sequence of calls
\* ------------------------------------------------------------------------

Node == {0, 1}
OtherNode(n) == 1 - n

\* The calls of a program; arg is the index of the call whose handle is used
AllocatePointCall(val) ==
    [call |-> "allocate_point", val |-> val, sender |-> PARTY0, random |-> 0, arg |-> 0]
SharePointCall(val, sender, random) ==
    [call |-> "share_point", val |-> val, sender |-> sender, random |-> random, arg |-> 0]
SendValueCall(arg) ==
    [call |-> "send_value", val |-> 0, sender |-> PARTY0, random |-> 0, arg |-> arg]
OpenCall(arg) ==
    [call |-> "open", val |-> 0, sender |-> PARTY0, random |-> 0, arg |-> arg]

\* share_point then open of the shared value; and a public point that is
\* sent to the peer before a point is shared
Programs ==
    {<<SharePointCall(val, sender, random), OpenCall(1)>> :
        val \in Zp, sender \in Party, random \in Rand}
    \cup
    {<<AllocatePointCall(val), SendValueCall(1), SharePointCall(val, sender, random)>> :
        val \in Zp, sender \in Party, random \in Rand}

\* No task awaits a handle; the output of a task is empty until it is ready
NoTask == [name |-> "task", status |-> "none", handle |-> 0, output |-> <<>>]

\* Two fabrics are constructed, fabric n for party parties[n]
InitNodes(link, parties, programs) ==
    /\ linked = link
    /\ prog \in programs
    /\ pc = [n \in Node |-> 1]
    /\ fabric = [n \in Node |-> new_with_size_hint(parties[n], mac_key[parties[n]])]
    /\ executor = [n \in Node |-> [operations |-> <<>>, dependents |-> <<>>,
                                    dispatched |-> <<>>,
                                    running |-> TRUE, to_wake |-> {}]]
    /\ sent = [n \in Node |-> <<>>]
    /\ call_log = [n \in Node |-> <<>>]
    /\ tasks = [n \in Node |-> NoTask]
    /\ signal = [n \in Node |-> FALSE]

\* The user code of each fabric is one thread
InitFabricOf(link, parties, programs) ==
    /\ InitNodes(link, parties, programs)
    /\ callers = <<>>

InitFabric(link, parties) == InitFabricOf(link, parties, Programs)

\* The two parties of one computation
InitTwoParty == InitAlg /\ InitFabric(TRUE, [n \in Node |-> n])

\* Two executions of the same party, each with a network that delivers nothing
InitTwoRuns == InitAlg /\ \E p \in Party : InitFabric(FALSE, [n \in Node |-> p])

\* The user code of fabric n makes its next call, which leaves the fabric as
\* `after` and returns `value`, whose first result has the id `handle`; the
\* ids and the operations the call allocated are logged
CallReturning(n, name, after, handle, value) ==
    LET before == fabric[n].inner
        declared(message) == message.type = "Op" /\ message.op.id >= before.next_op_id
        new_ops == SelectSeq(after.execution_queue, declared)
        pushed == Len(new_ops)
        ops == [i \in 1 .. pushed |-> new_ops[i].op]
    IN  /\ pc[n] <= Len(prog)
        /\ prog[pc[n]].call = name
        /\ pc' = [pc EXCEPT ![n] = @ + 1]
        /\ fabric' = [fabric EXCEPT ![n].inner = after]
        /\ call_log' = [call_log EXCEPT ![n] = Append(@,
                [handle |-> handle,
                 value |-> value,
                 result_ids |-> before.next_result_id .. (after.next_result_id - 1),
                 op_ids |-> [i \in 1 .. pushed |-> ops[i].id],
                 ops |-> ops,
                 slots |-> {id \in before.next_result_id .. (after.next_result_id - 1) :
                                /\ id \notin DOMAIN after.results \ DOMAIN before.results
                                /\ \A i \in 1 .. pushed : id \notin Range(result_ids(ops[i]))}])]
        /\ UNCHANGED <<algVars, linked, prog, executor, sent, tasks, signal, callers>>

Call(n, name, after, handle) == CallReturning(n, name, after, handle, handle)

Current(n) == prog[IF pc[n] <= Len(prog) THEN pc[n] ELSE 1]
HandleOf(n, i) == call_log[n][i].handle

FabricAllocatePoint(n) ==
    /\ pc[n] <= Len(prog) /\ Current(n).call = "allocate_point"
    /\ LET handle == allocate_point(fabric[n].inner, Current(n).val)
       IN  Call(n, "allocate_point", handle.fabric, handle.id)

FabricSharePoint(n) ==
    /\ pc[n] <= Len(prog) /\ Current(n).call = "share_point"
    /\ LET call == Current(n)
           shares == [p \in Party |->
                        share_point_value(p, call.val, call.sender, call.random)]
           value == share_point(fabric[n].inner, fabric[n].mac_key, call.val, call.sender,
                                call.random, MacProduct(mac_key, shares, call.random))
       IN  CallReturning(n, "share_point", value.fabric, value.share,
                         [share |-> value.share, mac |-> value.mac,
                          public_modifier |-> value.public_modifier])

FabricSendValue(n) ==
    /\ pc[n] <= Len(prog) /\ Current(n).call = "send_value"
    /\ LET handle == send_value(fabric[n].inner, HandleOf(n, Current(n).arg))
       IN  Call(n, "send_value", handle.fabric, handle.id)

FabricOpen(n) ==
    /\ pc[n] <= Len(prog) /\ Current(n).call = "open"
    /\ LET handle == mpc_point_open(fabric[n].inner, HandleOf(n, Current(n).arg))
       IN  Call(n, "open", handle.fabric, handle.id)

\* The executor of fabric n handles the next message of its queue: on
\* Shutdown it stops; otherwise it fulfils results and wakes the tasks that
\* wait for them, at once or, with wake_now FALSE, in a step of its own
ExecutorStep(n, wake_now) ==
    LET message == Head(fabric[n].inner.execution_queue)
        popped == [fabric[n].inner EXCEPT !.execution_queue = Tail(@)]
    IN  IF message.type = "Shutdown"
        THEN /\ fabric' = [fabric EXCEPT ![n].inner = popped]
             /\ executor' = [executor EXCEPT ![n].running = FALSE]
             /\ UNCHANGED tasks
        ELSE LET st == handle_message(
                        ExecutorState(popped, executor[n].operations,
                                      executor[n].dependents, executor[n].dispatched),
                        message)
                 inserted == DOMAIN st.inner.results \ DOMAIN popped.results
             IN  /\ fabric' = [fabric EXCEPT ![n].inner =
                        IF wake_now
                        THEN [st.inner EXCEPT !.wakers = remove_wakers(@, inserted)]
                        ELSE st.inner]
                 /\ executor' = [executor EXCEPT ![n] =
                        [operations |-> st.operations, dependents |-> st.dependents,
                         dispatched |-> st.dispatched,
                         running |-> TRUE,
                         to_wake |-> IF wake_now THEN {} ELSE inserted]]
                 /\ tasks' = IF wake_now
                             THEN [tasks EXCEPT ![n] = wake(@, st.inner.wakers, inserted)]
                             ELSE tasks

ExecutorReady(n) ==
    /\ executor_loops(executor[n].running)
    /\ executor[n].to_wake = {}
    /\ fabric[n].inner.execution_queue # <<>>

Execute(n) ==
    /\ ExecutorReady(n)
    /\ ExecutorStep(n, TRUE)
    /\ UNCHANGED <<algVars, linked, prog, pc, sent, call_log, signal, callers>>

\* The network sender of fabric n writes the next outbound message to the
\* transport; the peer's inbound loop hands it to the peer's executor
NetworkSend(n) ==
    /\ ~signal[n]
    /\ fabric[n].inner.outbound_queue # <<>>
    /\ LET message == Head(fabric[n].inner.outbound_queue)
           result == [type |-> "Result", id |-> message.result_id,
                      value |-> message.payload]
       IN  /\ fabric' = [fabric EXCEPT
                ![n].inner.outbound_queue = Tail(@),
                ![OtherNode(n)].inner.execution_queue =
                    IF linked THEN Append(@, result) ELSE @]
           /\ sent' = [sent EXCEPT ![n] = Append(@, message.result_id)]
    /\ UNCHANGED <<algVars, linked, prog, pc, executor, call_log, tasks, signal, callers>>

NextFabric ==
    \/ \E n \in Node : FabricAllocatePoint(n)
    \/ \E n \in Node : FabricSharePoint(n)
    \/ \E n \in Node : FabricSendValue(n)
    \/ \E n \in Node : FabricOpen(n)
    \/ \E n \in Node : Execute(n)
    \/ \E n \in Node : NetworkSend(n)

vars == <<algVars, fabVars>>

Init == InitAlg /\ InitNoFabric

Spec == Init /\ [][NextAlg]_vars

SpecOpen == Init /\ [][NextOpen]_vars

SpecMul == Init /\ [][NextMul]_vars

SpecLocal == Init /\ [][NextLocal]_vars

SpecFabric == InitTwoParty /\ [][NextFabric]_vars

SpecDet == InitTwoRuns /\ [][NextFabric]_vars

\* ------------------------------------------------------------------------
\* Two parties that exchange values and send values to each other
\* ------------------------------------------------------------------------

ExchangeValueCall(arg) ==
    [call |-> "exchange_value", val |-> 0, sender |-> PARTY0, random |-> 0, arg |-> arg]

\* A point is shared and the parties exchange their shares of it
ExchangePrograms ==
    {<<SharePointCall(val, sender, random), ExchangeValueCall(1)>> :
        val \in Zp, sender \in Party, random \in Rand}

InitExchange ==
    /\ InitAlg
    /\ mac_key[PARTY1] = 1
    /\ InitFabricOf(TRUE, [n \in Node |-> n], ExchangePrograms)

FabricExchangeValue(n) ==
    /\ pc[n] <= Len(prog) /\ Current(n).call = "exchange_value"
    /\ LET handle == exchange_value(fabric[n].inner, HandleOf(n, Current(n).arg))
       IN  Call(n, "exchange_value", handle.fabric, handle.id)

NextExchange ==
    \/ \E n \in Node : FabricSharePoint(n)
    \/ \E n \in Node : FabricExchangeValue(n)
    \/ \E n \in Node : Execute(n)
    \/ \E n \in Node : NetworkSend(n)

\* The user, the executor and the network sender of a party are threads that
\* keep running: a party that can take a step eventually takes one, and the
\* transport delivers what is written to it
PartyStep(n) ==
    \/ FabricSharePoint(n)
    \/ FabricExchangeValue(n)
    \/ Execute(n)
    \/ NetworkSend(n)

FairExchange == \A n \in Node : WF_vars(PartyStep(n))

SpecExchange == InitExchange /\ [][NextExchange]_vars /\ FairExchange

\* A share is sent to the peer, and after it a public point
SendPrograms ==
    {<<SharePointCall(val, sender, random), SendValueCall(1),
       AllocatePointCall(val), SendValueCall(3)>> :
        val \in Zp, sender \in Party, random \in Rand}

InitSend ==
    /\ InitAlg
    /\ mac_key[PARTY1] = 1
    /\ InitFabricOf(TRUE, [n \in Node |-> n], SendPrograms)

NextSend ==
    \/ \E n \in Node : FabricAllocatePoint(n)
    \/ \E n \in Node : FabricSharePoint(n)
    \/ \E n \in Node : FabricSendValue(n)
    \/ \E n \in Node : Execute(n)
    \/ \E n \in Node : NetworkSend(n)

SpecSend == InitSend /\ [][NextSend]_vars

\* ------------------------------------------------------------------------
\* Two parties that open an authenticated point
\* ------------------------------------------------------------------------

\* open_authenticated of the point call `arg` shared; party 0 draws the
\* blinder blinder0 and party 1 the blinder blinder1
OpenAuthenticatedCall(arg, blinder0, blinder1) ==
    [call |-> "open_authenticated", val |-> blinder0, sender |-> PARTY0,
     random |-> blinder1, arg |-> arg]

AuthPrograms ==
    {<<SharePointCall(val, sender, random), OpenAuthenticatedCall(1, 0, 1)>> :
        val \in Zp, sender \in Party, random \in Rand}

InitAuth ==
    /\ InitAlg
    /\ mac_key = ByParty(1, 1)
    /\ InitFabricOf(TRUE, [n \in Node |-> n], AuthPrograms)

FabricOpenAuthenticated(n) ==
    /\ pc[n] <= Len(prog) /\ Current(n).call = "open_authenticated"
    /\ LET call == Current(n)
           blinder == IF fabric[n].inner.party_id = PARTY0 THEN call.val ELSE call.random
           res == open_authenticated_gates(fabric[n].inner, fabric[n].mac_key,
                                           call_log[n][call.arg].value, blinder)
       IN  CallReturning(n, "open_authenticated", res.fabric, res.value,
                         [value |-> res.value, mac_check |-> res.mac_check,
                          my_mac_check |-> res.my_mac_check,
                          my_blinder |-> res.my_blinder,
                          peer_commit |-> res.peer_commit])

NextAuth ==
    \/ \E n \in Node : FabricSharePoint(n)
    \/ \E n \in Node : FabricOpenAuthenticated(n)
    \/ \E n \in Node : Execute(n)
    \/ \E n \in Node : NetworkSend(n)

SpecAuth == InitAuth /\ [][NextAuth]_vars

\* test_helpers::modify_mac of the point call `arg` shared: party 0 replaces
\* its mac by new_mac0 and party 1 by new_mac1
ModifyMacCall(arg, new_mac0, new_mac1) ==
    [call |-> "modify_mac", val |-> new_mac0, sender |-> PARTY0,
     random |-> new_mac1, arg |-> arg]
\* The sum of the result of call `arg` with itself
DoubleCall(arg) ==
    [call |-> "double", val |-> 0, sender |-> PARTY0, random |-> 0, arg |-> arg]

\* A point is shared, its mac is replaced, it is opened with the MAC check,
\* and the circuit goes on with a gate on the opened value
TamperPrograms ==
    {<<SharePointCall(Generator, PARTY0, Generator), ModifyMacCall(1, new_mac, Identity),
       OpenAuthenticatedCall(2, 0, 1), DoubleCall(3)>> :
        new_mac \in Zp}

InitTamper ==
    /\ InitAlg
    /\ mac_key = ByParty(1, 1)
    /\ InitFabricOf(TRUE, [n \in Node |-> n], TamperPrograms)

FabricModifyMac(n) ==
    /\ pc[n] <= Len(prog) /\ Current(n).call = "modify_mac"
    /\ LET call == Current(n)
           point == call_log[n][call.arg].value
           new_mac == allocate_point(fabric[n].inner,
                        IF fabric[n].inner.party_id = PARTY0 THEN call.val ELSE call.random)
       IN  CallReturning(n, "modify_mac", new_mac.fabric, point.share,
                         [point EXCEPT !.mac = new_mac.id])

FabricDouble(n) ==
    /\ pc[n] <= Len(prog) /\ Current(n).call = "double"
    /\ LET handle == new_gate_op(fabric[n].inner,
                        <<HandleOf(n, Current(n).arg), HandleOf(n, Current(n).arg)>>, SumArgs)
       IN  Call(n, "double", handle.fabric, handle.id)

NextTamper ==
    \/ \E n \in Node : FabricSharePoint(n)
    \/ \E n \in Node : FabricModifyMac(n)
    \/ \E n \in Node : FabricOpenAuthenticated(n)
    \/ \E n \in Node : FabricDouble(n)
    \/ \E n \in Node : Execute(n)
    \/ \E n \in Node : NetworkSend(n)

SpecTamper == InitTamper /\ [][NextTamper]_vars

\* ------------------------------------------------------------------------
\* Gates on results that are pending or complete when the gate is declared
\* ------------------------------------------------------------------------

\* A point is shared, added to itself twice as in `res = &res + &res`, and the
\* sum is sent to the peer
GatePrograms ==
    {<<SharePointCall(val, sender, random), DoubleCall(1), DoubleCall(2), SendValueCall(3)>> :
        val \in Zp, sender \in Party, random \in Rand}

InitGate ==
    /\ InitAlg
    /\ mac_key[PARTY1] = 1
    /\ InitFabricOf(TRUE, [n \in Node |-> n], GatePrograms)

NextGate ==
    \/ \E n \in Node : FabricSharePoint(n)
    \/ \E n \in Node : FabricDouble(n)
    \/ \E n \in Node : FabricSendValue(n)
    \/ \E n \in Node : Execute(n)
    \/ \E n \in Node : NetworkSend(n)

SpecGate == InitGate /\ [][NextGate]_vars

\* ------------------------------------------------------------------------
\* A task that awaits a handle, and the shutdown of the fabric
\* ------------------------------------------------------------------------

AwaitCall(arg) ==
    [call |-> "await", val |-> 0, sender |-> PARTY0, random |-> 0, arg |-> arg]
ShutdownCall ==
    [call |-> "shutdown", val |-> 0, sender |-> PARTY0, random |-> 0, arg |-> 0]

\* The shares of a point are exchanged, a task awaits the peer's share, and
\* the fabric is shut down
AwaitPrograms ==
    {<<SharePointCall(val, sender, random), ExchangeValueCall(1), AwaitCall(2),
       ShutdownCall>> :
        val \in Zp, sender \in Party, random \in Rand}

InitAwait ==
    /\ InitAlg
    /\ mac_key = ByParty(1, 2 % FieldOrder)
    /\ InitFabricOf(TRUE, [n \in Node |-> n], AwaitPrograms)

\* A call that allocates nothing
Logged(n, handle) ==
    /\ pc' = [pc EXCEPT ![n] = @ + 1]
    /\ call_log' = [call_log EXCEPT ![n] = Append(@,
            [handle |-> handle, value |-> handle, result_ids |-> {},
             op_ids |-> <<>>, ops |-> <<>>])]

\* The user's task starts to await the handle of call `arg`
Await(n) ==
    /\ pc[n] <= Len(prog) /\ Current(n).call = "await"
    /\ tasks' = [tasks EXCEPT ![n] =
            [NoTask EXCEPT !.status = "polling", !.handle = HandleOf(n, Current(n).arg)]]
    /\ Logged(n, HandleOf(n, Current(n).arg))
    /\ UNCHANGED <<algVars, linked, prog, fabric, executor, sent, signal, callers>>

\* MpcFabric::shutdown: the executor is sent Shutdown and the signal that
\* stops the network loops is broadcast
FabricShutdown(n) ==
    /\ pc[n] <= Len(prog) /\ Current(n).call = "shutdown"
    /\ fabric' = [fabric EXCEPT ![n].inner = shutdown(@)]
    /\ signal' = [signal EXCEPT ![n] = TRUE]
    /\ Logged(n, 0)
    /\ UNCHANGED <<algVars, linked, prog, executor, sent, tasks, callers>>

\* The task is polled
Poll(n) ==
    /\ tasks[n].status = "polling"
    /\ LET polled == poll(fabric[n].inner, tasks[n].handle, tasks[n].name)
       IN  /\ fabric' = [fabric EXCEPT ![n].inner = polled.fabric]
           /\ tasks' = [tasks EXCEPT ![n] =
                    IF polled.ready
                    THEN [@ EXCEPT !.status = "ready", !.output = <<polled.value>>]
                    ELSE [@ EXCEPT !.status = "suspended"]]
    /\ UNCHANGED <<algVars, linked, prog, pc, executor, sent, call_log, signal, callers>>

\* The executor handles a message and inserts the results it fulfils
Fulfil(n) ==
    /\ ExecutorReady(n)
    /\ ExecutorStep(n, FALSE)
    /\ UNCHANGED <<algVars, linked, prog, pc, sent, call_log, signal, callers>>

\* The executor wakes the wakers of the results it has inserted
Wake(n) ==
    /\ executor[n].to_wake # {}
    /\ fabric' = [fabric EXCEPT ![n].inner.wakers = remove_wakers(@, executor[n].to_wake)]
    /\ tasks' = [tasks EXCEPT ![n] = wake(@, fabric[n].inner.wakers, executor[n].to_wake)]
    /\ executor' = [executor EXCEPT ![n].to_wake = {}]
    /\ UNCHANGED <<algVars, linked, prog, pc, sent, call_log, signal, callers>>

NextAwait ==
    \/ \E n \in Node : FabricSharePoint(n)
    \/ \E n \in Node : FabricExchangeValue(n)
    \/ \E n \in Node : Await(n)
    \/ \E n \in Node : FabricShutdown(n)
    \/ \E n \in Node : Poll(n)
    \/ \E n \in Node : Fulfil(n)
    \/ \E n \in Node : Wake(n)
    \/ \E n \in Node : NetworkSend(n)

SpecAwait == InitAwait /\ [][NextAwait]_vars

\* A point is shared and added to itself, and a task awaits the sum; the
\* fabric is not shut down
GateAwaitPrograms ==
    {<<SharePointCall(Generator, PARTY0, random), DoubleCall(1), AwaitCall(2)>> :
        random \in Rand}

InitGateAwait ==
    /\ InitAlg
    /\ mac_key = ByParty(1, 1)
    /\ InitFabricOf(TRUE, [n \in Node |-> n], GateAwaitPrograms)

NextGateAwait ==
    \/ \E n \in Node : FabricSharePoint(n)
    \/ \E n \in Node : FabricDouble(n)
    \/ \E n \in Node : Await(n)
    \/ \E n \in Node : Poll(n)
    \/ \E n \in Node : Fulfil(n)
    \/ \E n \in Node : Wake(n)
    \/ \E n \in Node : NetworkSend(n)

\* The user code, the task, the executor and the network sender of a party
\* keep running
GateAwaitStep(n) ==
    \/ FabricSharePoint(n)
    \/ FabricDouble(n)
    \/ Await(n)
    \/ Poll(n)
    \/ Fulfil(n)
    \/ Wake(n)
    \/ NetworkSend(n)

FairGateAwait == \A n \in Node : WF_vars(GateAwaitStep(n))

SpecGateAwait == InitGateAwait /\ [][NextGateAwait]_vars /\ FairGateAwait

\* The point of call `arg` plus, or minus, the public point val
AddPublicCall(arg, val) ==
    [call |-> "add_public", val |-> val, sender |-> PARTY0, random |-> 0, arg |-> arg]
SubPublicCall(arg, val) ==
    [call |-> "sub_public", val |-> val, sender |-> PARTY0, random |-> 0, arg |-> arg]

\* A point is shared and a public point is added to it
PublicPrograms ==
    {<<SharePointCall(val, sender, random), AddPublicCall(1, other)>> :
        val \in Zp, sender \in Party, random \in Rand, other \in Zp}

InitPublic ==
    /\ InitAlg
    /\ InitFabricOf(TRUE, [n \in Node |-> n], PublicPrograms)

\* A call that returns an authenticated point
ReturnsPoint(n, name, point) ==
    CallReturning(n, name, point.fabric, point.share,
                  [share |-> point.share, mac |-> point.mac,
                   public_modifier |-> point.public_modifier])

FabricAddPublic(n) ==
    /\ pc[n] <= Len(prog) /\ Current(n).call = "add_public"
    /\ ReturnsPoint(n, "add_public",
            add_StarkPoint_gates(fabric[n].inner, call_log[n][Current(n).arg].value,
                                 Current(n).val))

FabricSubPublic(n) ==
    /\ pc[n] <= Len(prog) /\ Current(n).call = "sub_public"
    /\ ReturnsPoint(n, "sub_public",
            sub_StarkPoint_gates(fabric[n].inner, call_log[n][Current(n).arg].value,
                                 Current(n).val))

NextPublic ==
    \/ \E n \in Node : FabricSharePoint(n)
    \/ \E n \in Node : FabricAddPublic(n)
    \/ \E n \in Node : Execute(n)
    \/ \E n \in Node : NetworkSend(n)

SpecPublic == InitPublic /\ [][NextPublic]_vars

\* zero_authenticated, one_authenticated or curve_identity_authenticated
ConstantCall(name) ==
    [call |-> name, val |-> 0, sender |-> PARTY0, random |-> 0, arg |-> 0]
ConstantNames == {"zero_authenticated", "one_authenticated", "curve_identity_authenticated"}

FabricConstant(n) ==
    /\ pc[n] <= Len(prog) /\ Current(n).call \in ConstantNames
    /\ ReturnsPoint(n, Current(n).call,
            CASE Current(n).call = "zero_authenticated" ->
                    zero_authenticated(fabric[n].inner)
              [] Current(n).call = "one_authenticated" ->
                    one_authenticated(fabric[n].inner, fabric[n].mac_key)
              [] Current(n).call = "curve_identity_authenticated" ->
                    curve_identity_authenticated(fabric[n].inner))

SharePlaintextCall(val, sender) ==
    [call |-> "share_plaintext", val |-> val, sender |-> sender, random |-> 0, arg |-> 0]

\* A public value is shared by one party and a task on each party awaits the
\* handle share_plaintext returned
PlaintextPrograms ==
    {<<SharePlaintextCall(val, sender), AwaitCall(1)>> : val \in Zp, sender \in Party}

InitPlaintext ==
    /\ InitAlg
    /\ mac_key = ByParty(1, 1)
    /\ InitFabricOf(TRUE, [n \in Node |-> n], PlaintextPrograms)

FabricSharePlaintext(n) ==
    /\ pc[n] <= Len(prog) /\ Current(n).call = "share_plaintext"
    /\ LET handle == share_plaintext(fabric[n].inner, Current(n).val, Current(n).sender)
       IN  Call(n, "share_plaintext", handle.fabric, handle.id)

NextPlaintext ==
    \/ \E n \in Node : FabricSharePlaintext(n)
    \/ \E n \in Node : Await(n)
    \/ \E n \in Node : Poll(n)
    \/ \E n \in Node : Fulfil(n)
    \/ \E n \in Node : Wake(n)
    \/ \E n \in Node : NetworkSend(n)

PlaintextStep(n) ==
    \/ FabricSharePlaintext(n)
    \/ Await(n)
    \/ Poll(n)
    \/ Fulfil(n)
    \/ Wake(n)
    \/ NetworkSend(n)

FairPlaintext == \A n \in Node : WF_vars(PlaintextStep(n))

SpecPlaintext == InitPlaintext /\ [][NextPlaintext]_vars /\ FairPlaintext

\* The calls that follow the sharing of a point in a circuit
ShapeCalls ==
    {ExchangeValueCall(1), AddPublicCall(1, Generator), SubPublicCall(1, Generator),
     OpenAuthenticatedCall(1, 0, 1)}
    \cup {SharePlaintextCall(Generator, sender) : sender \in Party}
    \cup {ConstantCall(name) : name \in ConstantNames}

\* A point is shared and two further calls build on the circuit
ShapePrograms ==
    {<<SharePointCall(Generator, sender, Generator), second, third>> :
        sender \in Party, second \in ShapeCalls, third \in ShapeCalls}

InitShape ==
    /\ InitAlg
    /\ mac_key = ByParty(1, 1)
    /\ InitFabricOf(TRUE, [n \in Node |-> n], ShapePrograms)

\* The user code of each party builds its circuit; result ids are handed out
\* by the calls alone
NextShape ==
    \/ \E n \in Node : FabricSharePoint(n)
    \/ \E n \in Node : FabricExchangeValue(n)
    \/ \E n \in Node : FabricSharePlaintext(n)
    \/ \E n \in Node : FabricAddPublic(n)
    \/ \E n \in Node : FabricSubPublic(n)
    \/ \E n \in Node : FabricOpenAuthenticated(n)
    \/ \E n \in Node : FabricConstant(n)

SpecShape == InitShape /\ [][NextShape]_vars

\* An authenticated constant is taken from the fabric and opened with the MAC
\* check, under every pair of MAC key shares
ConstantPrograms ==
    {<<ConstantCall(name), OpenAuthenticatedCall(1, 0, 1)>> : name \in ConstantNames}

InitConstants ==
    /\ InitAlg
    /\ InitFabricOf(TRUE, [n \in Node |-> n], ConstantPrograms)

NextConstants ==
    \/ \E n \in Node : FabricConstant(n)
    \/ \E n \in Node : FabricOpenAuthenticated(n)
    \/ \E n \in Node : Execute(n)
    \/ \E n \in Node : NetworkSend(n)

SpecConstants == InitConstants /\ [][NextConstants]_vars

\* ------------------------------------------------------------------------
\* Two parties that open a batch of authenticated points
\* ------------------------------------------------------------------------

\* open_authenticated_batch of the points that the calls 1 .. n shared; both
\* parties draw the blinder 1 for every commitment
OpenAuthenticatedBatchCall(n) ==
    [call |-> "open_authenticated_batch", val |-> n, sender |-> PARTY0,
     random |-> 1, arg |-> 1]

\* n points are shared and opened as one batch, for every n up to MaxBatch
BatchOpenPrograms ==
    {[i \in 1 .. n |-> SharePointCall(Generator, PARTY0, Generator)]
        \o <<OpenAuthenticatedBatchCall(n)>> :
        n \in 1 .. MaxBatch}

InitBatchOpen ==
    /\ InitAlg
    /\ mac_key = ByParty(1, 1)
    /\ InitFabricOf(TRUE, [n \in Node |-> n], BatchOpenPrograms)

FabricOpenAuthenticatedBatch(n) ==
    /\ pc[n] <= Len(prog) /\ Current(n).call = "open_authenticated_batch"
    /\ LET call == Current(n)
           values == [i \in 1 .. call.val |-> call_log[n][i].value]
           res == open_authenticated_batch_gates(fabric[n].inner, fabric[n].mac_key,
                                                 values, call.random)
       IN  CallReturning(n, "open_authenticated_batch", res.fabric,
                         IF res.opens = <<>> THEN 0 ELSE res.opens[1].value, res.opens)

NextBatchOpen ==
    \/ \E n \in Node : FabricSharePoint(n)
    \/ \E n \in Node : FabricOpenAuthenticatedBatch(n)
    \/ \E n \in Node : Execute(n)
    \/ \E n \in Node : NetworkSend(n)

SpecBatchOpen == InitBatchOpen /\ [][NextBatchOpen]_vars

\* ------------------------------------------------------------------------
\* A task that awaits an authenticated opening
\* ------------------------------------------------------------------------

\* A point is shared, party 0 replaces its mac, the point is opened with the
\* MAC check and a task awaits the opening
OpenAwaitPrograms ==
    {<<SharePointCall(Generator, PARTY0, Generator), ModifyMacCall(1, new_mac, Identity),
       OpenAuthenticatedCall(2, 0, 1), AwaitCall(3)>> :
        new_mac \in Zp}

InitOpenAwait ==
    /\ InitAlg
    /\ mac_key = ByParty(1, 1)
    /\ InitFabricOf(TRUE, [n \in Node |-> n], OpenAwaitPrograms)

\* The opening the task of fabric n awaits
AwaitedOpening(n) == call_log[n][prog[Len(prog)].arg].value

\* The task is polled: it polls the future of the opening
PollOpening(n) ==
    /\ tasks[n].status = "polling"
    /\ LET polled == poll_open(fabric[n].inner, AwaitedOpening(n), tasks[n].name)
       IN  /\ fabric' = [fabric EXCEPT ![n].inner = polled.fabric]
           /\ tasks' = [tasks EXCEPT ![n] =
                    IF polled.ready
                    THEN [@ EXCEPT !.status = "ready", !.output = <<polled.value>>]
                    ELSE [@ EXCEPT !.status = "suspended"]]
    /\ UNCHANGED <<algVars, linked, prog, pc, executor, sent, call_log, signal, callers>>

NextOpenAwait ==
    \/ \E n \in Node : FabricSharePoint(n)
    \/ \E n \in Node : FabricModifyMac(n)
    \/ \E n \in Node : FabricOpenAuthenticated(n)
    \/ \E n \in Node : Await(n)
    \/ \E n \in Node : PollOpening(n)
    \/ \E n \in Node : Fulfil(n)
    \/ \E n \in Node : Wake(n)
    \/ \E n \in Node : NetworkSend(n)

SpecOpenAwait == InitOpenAwait /\ [][NextOpenAwait]_vars

\* ------------------------------------------------------------------------
\* One party that opens X against a counterparty that sends what it likes
\* ------------------------------------------------------------------------

\* What a counterparty may send in an authenticated opening
PeerMessages ==
    [share : Zp, commit : {hash_commit(value, blinder) : value \in Zp, blinder \in Blinder},
     mac_check : Zp, blinder : Blinder]

\* X.open_authenticated() on `party`, which receives `peer` from the network
OpenAuthenticatedReceived(party, peer) ==
    /\ Building /\ "X" \in shared
    /\ open_auth_res' = [open_auth_res EXCEPT !["X"] =
            <<[party |-> party, peer |-> peer,
               res |-> open_authenticated_received(
                            pts["X"][party], mac_key[party], peer.share,
                            peer.commit, peer.mac_check, peer.blinder)]>>]
    /\ UNCHANGED <<mac_key, shared, pts, clear, hist, tampered, open_res,
                   open_batch_res, scl, fabVars>>

NextVerify ==
    \/ \E val \in Zp, sender \in Party, random_point \in Rand, split \in Rand :
            SharePoint("X", val, sender, random_point, split)
    \/ \E other \in Zp : AddPublic(other)
    \/ \E party \in Party, peer \in PeerMessages :
            OpenAuthenticatedReceived(party, peer)

SpecVerify == Init /\ [][NextVerify]_vars

\* ------------------------------------------------------------------------
\* Threads that call into one fabric concurrently
\* ------------------------------------------------------------------------

Caller == {"a", "b"}

\* The primitives that hand out result ids; new_op for a gate and for a batch
\* gate of two outputs
Primitive ==
    {[name |-> "allocate_value", output_arity |-> 1],
     [name |-> "allocate_shared_value", output_arity |-> 1],
     [name |-> "receive_value", output_arity |-> 1],
     [name |-> "new_op", output_arity |-> 1],
     [name |-> "new_op", output_arity |-> 2]}

\* Each thread makes two calls
CallerPrograms == {<<first, second>> : first, second \in Primitive}

InitConcurrent ==
    /\ InitAlg
    /\ mac_key = ByParty(1, 1)
    /\ InitNodes(FALSE, [n \in Node |-> PARTY0], {<<>>})
    /\ callers \in [Caller -> {[prog |-> calls, pc |-> 1, ids |-> <<>>,
                                 locked |-> FALSE, returned |-> <<>>] :
                                    calls \in CallerPrograms}]

Calling(c, name) ==
    /\ callers[c].pc <= Len(callers[c].prog)
    /\ callers[c].prog[callers[c].pc].name = name

\* Thread c's call returns ids
Returns(c, ids) ==
    [callers EXCEPT ![c] = [@ EXCEPT !.pc = @ + 1, !.ids = <<>>, !.locked = FALSE,
                                     !.returned = Append(@, ids)]]

\* allocate_value and allocate_shared_value first take the write lock of the
\* results
LockResults(c) ==
    /\ Calling(c, "allocate_value") \/ Calling(c, "allocate_shared_value")
    /\ \A other \in Caller : ~callers[other].locked
    /\ callers' = [callers EXCEPT ![c].locked = TRUE]
    /\ UNCHANGED <<algVars, linked, prog, pc, fabric, executor, sent, call_log, tasks, signal>>

ConcurrentAllocateValue(c) ==
    /\ Calling(c, "allocate_value") /\ callers[c].locked
    /\ LET allocated == allocate_value(fabric[0].inner, Generator)
       IN  /\ fabric' = [fabric EXCEPT ![0].inner = allocated.fabric]
           /\ callers' = Returns(c, <<allocated.id>>)
    /\ UNCHANGED <<algVars, linked, prog, pc, executor, sent, call_log, tasks, signal>>

ConcurrentAllocateSharedValue(c) ==
    /\ Calling(c, "allocate_shared_value") /\ callers[c].locked
    /\ LET allocated == allocate_shared_value(fabric[0].inner, Generator, Identity)
       IN  /\ fabric' = [fabric EXCEPT ![0].inner = allocated.fabric]
           /\ callers' = Returns(c, <<allocated.id>>)
    /\ UNCHANGED <<algVars, linked, prog, pc, executor, sent, call_log, tasks, signal>>

ConcurrentReceiveValue(c) ==
    /\ Calling(c, "receive_value")
    /\ LET slot == new_result_id(fabric[0].inner)
       IN  /\ fabric' = [fabric EXCEPT ![0].inner = slot.fabric]
           /\ callers' = Returns(c, <<slot.id>>)
    /\ UNCHANGED <<algVars, linked, prog, pc, executor, sent, call_log, tasks, signal>>

\* new_op takes one result id per output, one fetch-and-add each
NewOpResultId(c) ==
    /\ Calling(c, "new_op")
    /\ Len(callers[c].ids) < callers[c].prog[callers[c].pc].output_arity
    /\ LET next == new_result_id(fabric[0].inner)
       IN  /\ fabric' = [fabric EXCEPT ![0].inner = next.fabric]
           /\ callers' = [callers EXCEPT ![c].ids = Append(@, next.id)]
    /\ UNCHANGED <<algVars, linked, prog, pc, executor, sent, call_log, tasks, signal>>

\* new_op then takes the operation id and pushes the operation
NewOpPush(c) ==
    /\ Calling(c, "new_op")
    /\ Len(callers[c].ids) = callers[c].prog[callers[c].pc].output_arity
    /\ LET f == fabric[0].inner
           op == [id |-> f.next_op_id,
                  result_id |-> callers[c].ids[1],
                  output_arity |-> Len(callers[c].ids),
                  args |-> <<RESULT_IDENTITY, RESULT_IDENTITY>>,
                  inflight_args |-> 0,
                  op_type |-> IF Len(callers[c].ids) = 1 THEN "Gate" ELSE "GateBatch",
                  function |-> SumArgs]
       IN  /\ fabric' = [fabric EXCEPT ![0].inner =
                    [f EXCEPT !.next_op_id = @ + 1,
                              !.execution_queue = Append(@, [type |-> "Op", op |-> op])]]
           /\ callers' = Returns(c, callers[c].ids)
    /\ UNCHANGED <<algVars, linked, prog, pc, executor, sent, call_log, tasks, signal>>

NextConcurrent ==
    \/ \E c \in Caller : LockResults(c)
    \/ \E c \in Caller : ConcurrentAllocateValue(c)
    \/ \E c \in Caller : ConcurrentAllocateSharedValue(c)
    \/ \E c \in Caller : ConcurrentReceiveValue(c)
    \/ \E c \in Caller : NewOpResultId(c)
    \/ \E c \in Caller : NewOpPush(c)

SpecConcurrent == InitConcurrent /\ [][NextConcurrent]_vars

\* ------------------------------------------------------------------------
\* Two parties that multiply by the beaver trick
\* ------------------------------------------------------------------------

\* The product of the point of call `point` and the scalar of call `scalar`
MulCall(scalar, point) ==
    [call |-> "mul", val |-> scalar, sender |-> PARTY0, random |-> 0, arg |-> point]
\* batch_mul of n copies of the scalar and n copies of the point
BatchMulCall(scalar, point, n) ==
    [call |-> "batch_mul", val |-> scalar, sender |-> PARTY0, random |-> n, arg |-> point]

\* A point is shared, the authenticated one is taken as the scalar, and two
\* multiplications follow, each single or batched
Multiplications == {MulCall(2, 1)} \cup {BatchMulCall(2, 1, n) : n \in 0 .. MaxBatch}
TriplePrograms ==
    {<<SharePointCall(Generator, sender, Generator), ConstantCall("one_authenticated"),
       first, second>> :
        sender \in Party, first \in Multiplications, second \in Multiplications}

\* Two worker threads of party 0 each draw one more triple once the main
\* task has built its circuit
InitTriple ==
    /\ InitAlg
    /\ mac_key = ByParty(1, 1)
    /\ InitNodes(TRUE, [n \in Node |-> n], TriplePrograms)
    /\ callers = [c \in Caller |-> [pc |-> 1, locked |-> FALSE, drawn |-> <<>>,
                                    returned |-> <<>>]]

\* A call that returns products and the triples it drew
ReturnsProducts(n, name, res) ==
    CallReturning(n, name, res.fabric,
                  IF res.products = <<>> THEN 0 ELSE res.products[1].share,
                  [products |-> res.products, triples |-> res.triples,
                   first_triple |-> fabric[n].inner.beaver_source + 1,
                   drawn |-> res.fabric.beaver_source])

FabricMul(n) ==
    /\ pc[n] <= Len(prog) /\ Current(n).call = "mul"
    /\ ReturnsProducts(n, "mul",
            mul_AuthenticatedScalar_gates(fabric[n].inner, fabric[n].mac_key,
                                          call_log[n][Current(n).arg].value,
                                          call_log[n][Current(n).val].value))

FabricBatchMul(n) ==
    /\ pc[n] <= Len(prog) /\ Current(n).call = "batch_mul"
    /\ ReturnsProducts(n, "batch_mul",
            batch_mul_gates(fabric[n].inner, fabric[n].mac_key,
                            [i \in 1 .. Current(n).random |->
                                call_log[n][Current(n).val].value],
                            [i \in 1 .. Current(n).random |->
                                call_log[n][Current(n).arg].value]))

TripleUnchanged ==
    UNCHANGED <<algVars, linked, prog, pc, executor, sent, call_log, tasks, signal>>

\* next_authenticated_triple on a worker thread: the lock of the beaver
\* source is taken
BeaverLock(c) ==
    /\ pc[0] > Len(prog)
    /\ callers[c].pc = 1 /\ callers[c].drawn = <<>>
    /\ \A other \in Caller : ~callers[other].locked
    /\ callers' = [callers EXCEPT ![c].locked = TRUE]
    /\ UNCHANGED fabric /\ TripleUnchanged

\* the next triple is drawn under the lock
BeaverNextTriplet(c) ==
    /\ callers[c].locked /\ callers[c].drawn = <<>>
    /\ LET drawn == next_triplet(fabric[0].inner)
       IN  /\ fabric' = [fabric EXCEPT ![0].inner = drawn.fabric]
           /\ callers' = [callers EXCEPT ![c].drawn =
                    <<[k |-> drawn.fabric.beaver_source, triplet |-> drawn.triplet]>>]
    /\ TripleUnchanged

\* the lock is released at the end of the statement
BeaverUnlock(c) ==
    /\ callers[c].locked /\ callers[c].drawn # <<>>
    /\ callers' = [callers EXCEPT ![c].locked = FALSE]
    /\ UNCHANGED fabric /\ TripleUnchanged

\* the values of the triple are allocated and wrapped, and the call returns
BeaverAllocate(c) ==
    /\ ~callers[c].locked /\ callers[c].drawn # <<>>
    /\ LET allocated == allocate_all(fabric[0].inner, callers[c].drawn[1].triplet)
           triple == new_shared_all(allocated.fabric, fabric[0].mac_key, allocated.ids)
       IN  /\ fabric' = [fabric EXCEPT ![0].inner = triple.fabric]
           /\ callers' = [callers EXCEPT ![c] =
                    [@ EXCEPT !.pc = 2, !.drawn = <<>>,
                              !.returned = <<[k |-> callers[c].drawn[1].k,
                                              triple |-> triple.shared]>>]]
    /\ TripleUnchanged

NextTriple ==
    \/ \E n \in Node : FabricSharePoint(n)
    \/ \E n \in Node : FabricConstant(n)
    \/ \E n \in Node : FabricMul(n)
    \/ \E n \in Node : FabricBatchMul(n)
    \/ \E c \in Caller : BeaverLock(c)
    \/ \E c \in Caller : BeaverNextTriplet(c)
    \/ \E c \in Caller : BeaverUnlock(c)
    \/ \E c \in Caller : BeaverAllocate(c)

SpecTriple == InitTriple /\ [][NextTriple]_vars

\* ------------------------------------------------------------------------
\* Two parties that share a batch of points and apply a batch operation
\* ------------------------------------------------------------------------

BatchSharePointCall(n, sender, random) ==
    [call |-> "batch_share_point", val |-> n, sender |-> sender, random |-> random,
     arg |-> 0]
\* The operation on the empty slice (arg = 0) or on the batch that call arg
\* returned
BatchOperationCall(name, arg) ==
    [call |-> name, val |-> 0, sender |-> PARTY0, random |-> 1, arg |-> arg]

GateBatchOperations ==
    {"batch_add", "batch_add_public", "batch_sub", "batch_sub_public", "batch_neg",
     "batch_mul_public", "batch_mul_generator"}
BatchOperations == GateBatchOperations \cup {"batch_mul", "open_authenticated_batch"}

\* A batch of 0 .. MaxBatch points is shared, and a batch operation is applied
\* to the empty slice or to the batch
EmptyBatchPrograms ==
    {<<BatchSharePointCall(n, sender, random), BatchOperationCall(name, arg)>> :
        n \in 0 .. MaxBatch, sender \in Party, random \in Rand,
        name \in BatchOperations, arg \in 0 .. 1}

InitEmptyBatch ==
    /\ InitAlg
    /\ mac_key = ByParty(1, 1)
    /\ InitFabricOf(TRUE, [n \in Node |-> n], EmptyBatchPrograms)

\* The thread of party n has panicked in one of its calls
Panicked(n) == \E i \in 1 .. Len(call_log[n]) : call_log[n][i].value.panicked

\* A batch call returns `out` for an input of `input` elements, or panics
BatchCallReturning(n, name, after, input, out, panicked) ==
    /\ ~Panicked(n)
    /\ CallReturning(n, name, after, 0,
                     [input |-> input, out |-> out, panicked |-> panicked])

FabricBatchSharePoint(n) ==
    /\ pc[n] <= Len(prog) /\ Current(n).call = "batch_share_point"
    /\ LET call == Current(n)
           res == batch_share_point(fabric[n].inner, fabric[n].mac_key,
                                    [i \in 1 .. call.val |-> Generator], call.sender,
                                    [i \in 1 .. call.val |-> call.random])
       IN  BatchCallReturning(n, "batch_share_point", res.fabric, call.val,
                              res.shared, res.panicked)

\* The batch the call is applied to
InputOf(n) == IF Current(n).arg = 0 THEN <<>> ELSE call_log[n][Current(n).arg].value.out

FabricGateBatchOperation(n) ==
    /\ pc[n] <= Len(prog) /\ Current(n).call \in GateBatchOperations
    /\ LET a == InputOf(n)
           res == batch_gate_operation(fabric[n].inner, Current(n).call, a, a)
       IN  BatchCallReturning(n, Current(n).call, res.fabric, Len(a), res.out, FALSE)

FabricBatchMulOf(n) ==
    /\ pc[n] <= Len(prog) /\ Current(n).call = "batch_mul"
    /\ LET a == InputOf(n)
           res == batch_mul_gates(fabric[n].inner, fabric[n].mac_key, a, a)
       IN  BatchCallReturning(n, "batch_mul", res.fabric, Len(a), res.products, FALSE)

FabricOpenAuthenticatedBatchOf(n) ==
    /\ pc[n] <= Len(prog) /\ Current(n).call = "open_authenticated_batch"
    /\ LET a == InputOf(n)
           res == open_authenticated_batch_gates(fabric[n].inner, fabric[n].mac_key,
                                                 a, Current(n).random)
       IN  BatchCallReturning(n, "open_authenticated_batch", res.fabric, Len(a),
                              res.opens, FALSE)

NextEmptyBatch ==
    \/ \E n \in Node : FabricBatchSharePoint(n)
    \/ \E n \in Node : FabricGateBatchOperation(n)
    \/ \E n \in Node : FabricBatchMulOf(n)
    \/ \E n \in Node : FabricOpenAuthenticatedBatchOf(n)

SpecEmptyBatch == InitEmptyBatch /\ [][NextEmptyBatch]_vars

\* ------------------------------------------------------------------------
\* Properties of the authenticated algebra
\* ------------------------------------------------------------------------

ShareSum(r) == PointAdd(pts[r][PARTY0].share, pts[r][PARTY1].share)
MacSum(r) == PointAdd(pts[r][PARTY0].mac, pts[r][PARTY1].mac)
KeySum == PointAdd(mac_key[PARTY0], mac_key[PARTY1])

\* I2 for the value in r, with the public modifier as party p holds it
MacInvariantAt(r, p) ==
    MacSum(r) = ScalarMul(KeySum, PointAdd(ShareSum(r), pts[r][p].public_modifier))

\* C1: after any sequence of local operations on values made by share_point,
\* mac_0 + mac_1 = k * (x + public_modifier) for every value, where
\* x = share_0 + share_1 and k = k_0 + k_1.
C1_MacInvariant ==
    \A r \in shared : \A p \in Party : MacInvariantAt(r, p)

\* C2: after any sequence of local operations, the two parties' shares sum
\* to the result of the same operations on the cleartext inputs.
C2_ShareSum ==
    \A r \in shared : ShareSum(r) = clear[r]

\* C2 witness: X went through a subtraction or a negation and a public
\* point moved its modifier, and its shares still sum to a non-zero value
C2_Witness ==
    /\ "X" \in shared /\ hist = "any"
    /\ pts["X"][PARTY0].public_modifier # Identity
    /\ pts["X"][PARTY0].share # clear["X"]
    /\ clear["X"] # Identity
    /\ ShareSum("X") = clear["X"]

AuthResult(r, p) == poll_open_result(open_auth_res[r][1][p])

\* C3: under honest execution open_authenticated on a value made by
\* share_point(v, sender) yields Ok(v) on both parties, the value that the
\* unauthenticated open returns.
C3_OpenAuthenticatedCorrect ==
    \A r \in shared :
        (Honest /\ (r = "X" => hist = "fresh") /\ open_auth_res[r] # <<>>) =>
            \A p \in Party :
                /\ AuthResult(r, p) = Ok(clear[r])
                /\ r = "X" => open_auth_res[r][1][p].value = open_res[1][p]

\* C3 witness: both parties opened a freshly shared non-identity point
C3_Witness ==
    /\ Honest /\ hist = "fresh" /\ "X" \in shared
    /\ clear["X"] # Identity
    /\ mac_key[PARTY0] # 0 /\ mac_key[PARTY1] # 0
    /\ open_auth_res["X"] # <<>>
    /\ \A p \in Party : AuthResult("X", p) = Ok(clear["X"])

\* The test helper replaced `component` of X by a different element
Replaced(component) ==
    /\ tampered # <<>>
    /\ tampered[1].component = component
    /\ pts["X"][tampered[1].party] # tampered[1].before

BothErr ==
    \A p \in Party :
        /\ AuthResult("X", p) = AuthenticationError
        /\ open_auth_res["X"][1][p].mac_check = 0

\* C5: if one party's mac of a shared value is replaced by a different
\* element, open_authenticated yields Err(AuthenticationError), the check
\* scalar being 0, on both parties.
C5_TamperedMacDetected ==
    (Replaced("mac") /\ open_auth_res["X"] # <<>>) => BothErr

\* C5 witness: a replaced mac was opened and refused
C5_Witness ==
    Replaced("mac") /\ open_auth_res["X"] # <<>> /\ BothErr

\* C6 as claimed: a replaced share or public modifier is refused whatever
\* the MAC key shares are.
C6_TamperedDetectedForEveryKey ==
    ((Replaced("share") \/ Replaced("public_modifier")) /\ open_auth_res["X"] # <<>>)
        => BothErr

\* C6 amended: a replaced share is refused when the MAC key k_0 + k_1 is
\* not zero, and a replaced public modifier is refused when the key share
\* of the party that replaced it is not zero.
C6_TamperedDetectedNonzeroKey ==
    /\ (Replaced("share") /\ KeySum # 0 /\ open_auth_res["X"] # <<>>) => BothErr
    /\ (Replaced("public_modifier") /\ mac_key[tampered[1].party] # 0
            /\ open_auth_res["X"] # <<>>) => BothErr

\* C6 witness: a replaced public modifier was opened and refused
C6_Witness ==
    /\ Replaced("public_modifier") /\ mac_key[tampered[1].party] # 0
    /\ open_auth_res["X"] # <<>> /\ BothErr

\* C7: open_authenticated of a*X + b*Y + C yields, on both parties, Ok of
\* the same expression on the cleartext values.
C7_Homomorphism ==
    (Honest /\ hist = "linear" /\ open_auth_res["X"] # <<>>) =>
        \A p \in Party : AuthResult("X", p) = Ok(clear["X"])

\* C7 witness: a combination with a public point was opened
C7_Witness ==
    /\ Honest /\ hist = "linear" /\ open_auth_res["X"] # <<>>
    /\ pts["X"][PARTY0].public_modifier # Identity
    /\ clear["X"] # Identity /\ clear["Y"] # Identity /\ KeySum # 0
    /\ \A p \in Party : AuthResult("X", p) = Ok(clear["X"])

\* C9: under honest execution open_authenticated_batch returns, element by
\* element, the opened value and the MAC-check outcome of the independent
\* open_authenticated calls.
C9_BatchEquivalence ==
    (Honest /\ open_batch_res # <<>>) =>
        LET b == open_batch_res[1] IN
        \A p \in Party :
            /\ Len(b.res[p]) = Len(b.batch)
            /\ \A i \in 1 .. Len(b.batch) :
                b.res[p][i] = open_auth_res[b.batch[i]][1][p]

\* C9 witness: a batch of two different values, one with a public modifier
C9_Witness ==
    /\ Honest /\ open_batch_res # <<>>
    /\ open_batch_res[1].batch = <<"X", "Y">>
    /\ pts["X"][PARTY0].public_modifier # Identity
    /\ clear["X"] # clear["Y"]
    /\ open_batch_res[1].res[PARTY0][1].mac_check = 1

\* C8: the product of an authenticated point by an authenticated scalar,
\* computed with a triple (a, b, a * b), opens to the product of the two
\* cleartext values and passes the MAC check, whatever the public modifiers
\* of the two inputs are.
C8_BeaverMultiplication ==
    (hist \in {"mul", "mul_modified"} /\ open_auth_res["X"] # <<>>) =>
        \A p \in Party :
            /\ open_res[1][p] = clear["X"]
            /\ AuthResult("X", p) = Ok(clear["X"])

\* C8 witness: the product of two inputs that both had a public modifier
\* was opened, is not the identity, and passed the check under a non-zero key
C8_Witness ==
    /\ hist = "mul_modified" /\ open_auth_res["X"] # <<>>
    /\ clear["X"] # Identity /\ KeySum # 0
    /\ \A p \in Party : AuthResult("X", p) = Ok(clear["X"])

\* The calls both fabrics have made
CommonCalls == 1 .. (IF pc[0] <= pc[1] THEN pc[0] ELSE pc[1]) - 1

\* Fabric n has nothing left to do
Quiescent(n) ==
    /\ pc[n] > Len(prog)
    /\ fabric[n].inner.execution_queue = <<>>
    /\ fabric[n].inner.outbound_queue = <<>>

\* The value at call i's handle on fabric n is complete
Resolved(n, i) ==
    /\ pc[n] > i
    /\ HandleOf(n, i) \in DOMAIN fabric[n].inner.results
ValueOf(n, i) == fabric[n].inner.results[HandleOf(n, i)]

\* C4: share_point(v, sender) followed by open() resolves to v on both
\* parties, for every v and every sender: the sender keeps v - r, the peer
\* receives r at the same result id, and the opened value is their sum.
C4_RoundTrip ==
    \A i \in 1 .. Len(prog) :
        (prog[i].call = "open" /\ prog[prog[i].arg].call = "share_point") =>
            LET share == prog[prog[i].arg]
            IN  /\ \A n \in Node : Resolved(n, i) => ValueOf(n, i) = share.val
                /\ \A n \in Node : Resolved(n, prog[i].arg) =>
                        ValueOf(n, prog[i].arg) =
                            IF fabric[n].inner.party_id = share.sender
                            THEN PointSub(share.val, share.random)
                            ELSE share.random
                /\ prog[i].arg \in CommonCalls =>
                        HandleOf(0, prog[i].arg) = HandleOf(1, prog[i].arg)

\* C4 witness: both parties hold the opened value of a shared point that is
\* not the identity and whose shares are not the identity
C4_Witness ==
    /\ Len(prog) = 2 /\ prog[2].call = "open"
    /\ prog[1].val # Identity /\ prog[1].random # Identity
    /\ prog[1].val # prog[1].random
    /\ \A n \in Node : Resolved(n, 2) /\ ValueOf(n, 2) = prog[1].val

\* Both executions gave every call they have both made the same result ids
\* and the same operation ids
SameIds ==
    \A i \in CommonCalls :
        /\ call_log[0][i].result_ids = call_log[1][i].result_ids
        /\ call_log[0][i].op_ids = call_log[1][i].op_ids

\* C10: two executions that issue the same sequence of fabric calls assign
\* the same result ids and operation ids to every call and emit their
\* outbound messages in the same order.
C10_GraphDeterminism ==
    /\ SameIds
    /\ (Quiescent(0) /\ Quiescent(1)) => sent[0] = sent[1]

\* ------------------------------------------------------------------------
\* Properties of the result buffer and of the id counters
\* ------------------------------------------------------------------------

Results(n) == fabric[n].inner.results

\* C14: the ids 0, 1 and 2 hold the scalar zero, the scalar one and the curve
\* identity in every reachable state of a fabric, and the first id handed out
\* to an allocation is 3.
C14_Constants ==
    \A n \in Node :
        /\ Results(n)[RESULT_ZERO] = 0
        /\ Results(n)[RESULT_ONE] = 1
        /\ Results(n)[RESULT_IDENTITY] = Identity
        /\ fabric[n].mac_key = N_CONSTANT_RESULTS
        /\ \A i \in 1 .. Len(call_log[n]) :
                \A id \in call_log[n][i].result_ids : id > N_CONSTANT_RESULTS

\* C14 witness: both fabrics ran a whole program, whose values came by
\* allocation, from gates and from the peer, next to the three constants
C14_Witness ==
    /\ Quiescent(0) /\ Quiescent(1)
    /\ \A n \in Node :
        /\ Cardinality(DOMAIN Results(n)) >= N_CONSTANT_RESULTS + 4
        /\ Results(n)[N_CONSTANT_RESULTS] # 0
        /\ Results(n)[RESULT_IDENTITY] = Identity

Least(ids) == CHOOSE id \in ids : \A other \in ids : id <= other
Greatest(ids) == CHOOSE id \in ids : \A other \in ids : other <= id
NextIdBefore(n, i) == Least(call_log[n][i].result_ids)
NextIdAfter(n, i) == Greatest(call_log[n][i].result_ids) + 1

\* The id that tags the payload fabric n sends in its exchange_value call i,
\* and the id of the slot the call allocated for the peer's value
PayloadId(n, i) == call_log[n][i].ops[1].result_id
ReceiveSlot(n, i) == call_log[n][i].handle

\* C17: when both parties start an exchange_value call with equal
\* next_result_id, the id that tags the payload each sends is the id of the
\* slot the other allocated with receive_value, and the two counters are
\* equal again after the call.
C17_IdAlignment ==
    \A i \in CommonCalls :
        (prog[i].call = "exchange_value" /\ NextIdBefore(0, i) = NextIdBefore(1, i)) =>
            /\ \A n \in Node : PayloadId(n, i) = ReceiveSlot(OtherNode(n), i)
            /\ \A n \in Node : call_log[n][i].ops[1].op_type = "Network"
            /\ NextIdAfter(0, i) = NextIdAfter(1, i)

\* C17 witness: both parties made the exchange, and the values arrived
C17_Witness ==
    /\ Len(prog) = 2 /\ prog[2].call = "exchange_value"
    /\ Quiescent(0) /\ Quiescent(1)
    /\ PayloadId(0, 2) # PayloadId(1, 2)
    /\ \A n \in Node : Resolved(n, 2)

\* What party n holds of the point that call i shared
ShareOf(n, i) ==
    IF fabric[n].inner.party_id = prog[i].sender
    THEN PointSub(prog[i].val, prog[i].random)
    ELSE prog[i].random

\* Both handles of the exchange hold the value the peer passed in
ExchangeResolved ==
    \A n \in Node :
        /\ Resolved(n, 2)
        /\ ValueOf(n, 2) = ShareOf(OtherNode(n), 1)

\* C16: when both parties call exchange_value at the same point of the graph
\* and the transport delivers every message, each party's handle eventually
\* holds the value the peer passed in.
C16_ExchangeLiveness ==
    (Len(prog) = 2 /\ prog[2].call = "exchange_value") ~> ExchangeResolved

\* C16 witness: the parties exchanged two different shares
C16_Witness ==
    /\ Len(prog) = 2 /\ prog[2].call = "exchange_value"
    /\ ExchangeResolved
    /\ ValueOf(0, 2) # ValueOf(1, 2)

\* The result ids of the network operations fabric n has declared, and the
\* ids of the network payloads put on its outbound channel so far, in order
NetworkOpIds(n) ==
    UNION {{call_log[n][i].ops[k].result_id :
                k \in {k \in 1 .. Len(call_log[n][i].ops) :
                            call_log[n][i].ops[k].op_type = "Network"}} :
            i \in 1 .. Len(call_log[n])}
Enqueued(n) ==
    sent[n] \o [k \in 1 .. Len(fabric[n].inner.outbound_queue) |->
                    fabric[n].inner.outbound_queue[k].result_id]
IsNetworkOpId(n, id) == id \in NetworkOpIds(n)
NetworkPayloads(n) == SelectSeq(Enqueued(n), LAMBDA id : IsNetworkOpId(n, id))

NetworkOp(n, id) ==
    LET i == CHOOSE i \in 1 .. Len(call_log[n]) :
                \E k \in 1 .. Len(call_log[n][i].ops) :
                    call_log[n][i].ops[k].result_id = id
        k == CHOOSE k \in 1 .. Len(call_log[n][i].ops) :
                call_log[n][i].ops[k].result_id = id
    IN  call_log[n][i].ops[k]

SendsOf(n, i, arg) ==
    {call_log[n][i].ops[k].result_id :
        k \in {k \in 1 .. Len(call_log[n][i].ops) :
                    /\ call_log[n][i].ops[k].op_type = "Network"
                    /\ call_log[n][i].ops[k].args = <<arg>>}}

\* Fabric n has put its MAC-check value, or the blinder of its commitment,
\* on the outbound channel
Revealed(n, i) ==
    \E id \in SendsOf(n, i, call_log[n][i].value.my_mac_check)
                \cup SendsOf(n, i, call_log[n][i].value.my_blinder) :
        id \in Range(Enqueued(n))

\* C11: within open_authenticated a party's MAC-check value m_i, and the
\* blinder of its commitment, is placed on the outbound queue only after the
\* party has received the peer's commitment.
C11_CommitBeforeReveal ==
    \A n \in Node : \A i \in 1 .. Len(call_log[n]) :
        (prog[i].call = "open_authenticated" /\ Revealed(n, i)) =>
            call_log[n][i].value.peer_commit \in DOMAIN Results(n)

\* Both fabrics have handled every message there is
AllDone == Quiescent(0) /\ Quiescent(1)

\* The results of fabric n's open_authenticated call i are complete, and what
\* awaiting the opening yields
OpeningComplete(n, i) ==
    /\ pc[n] > i
    /\ call_log[n][i].value.value \in DOMAIN Results(n)
    /\ call_log[n][i].value.mac_check \in DOMAIN Results(n)
OpeningResult(n, i) ==
    poll_open_result([value |-> Results(n)[call_log[n][i].value.value],
                      mac_check |-> Results(n)[call_log[n][i].value.mac_check]])
CheckFailed(n, i) ==
    OpeningComplete(n, i) /\ Results(n)[call_log[n][i].value.mac_check] = 0

\* C20: after an open_authenticated whose check scalar is 0 the fabric keeps
\* accepting operations and dispatches the gates declared after it, those
\* that depend on the opened value included; only the future of that opening
\* yields Err(AuthenticationError).
C20_FailedCheckNotPoisoning ==
    \A n \in Node :
        (Len(prog) = 4 /\ prog[3].call = "open_authenticated" /\ CheckFailed(n, 3)) =>
            /\ OpeningResult(n, 3) = AuthenticationError
            /\ AllDone =>
                /\ executor[n].operations = <<>>
                /\ Resolved(n, 4)
                /\ ValueOf(n, 4) = PointAdd(ValueOf(n, 3), ValueOf(n, 3))
                /\ ValueOf(n, 3) = prog[1].val

\* C20 witness: the check failed on both parties and the later gate on the
\* opened value has its result
C20_Witness ==
    /\ Len(prog) = 4 /\ prog[3].call = "open_authenticated"
    /\ AllDone
    /\ \A n \in Node : CheckFailed(n, 3) /\ Resolved(n, 4)
    /\ ValueOf(0, 4) = PointAdd(Generator, Generator)

\* ------------------------------------------------------------------------
\* Properties of polling and of shutdown
\* ------------------------------------------------------------------------

WakerRegistered(n) ==
    /\ tasks[n].handle \in DOMAIN fabric[n].inner.wakers
    /\ tasks[n].name \in Range(fabric[n].inner.wakers[tasks[n].handle])

\* C15: no wake-up is lost: a task whose poll returned Pending has its waker
\* registered for as long as the result is not inserted, and once the result
\* is inserted it is suspended only until the executor's wake of that
\* insertion, which schedules it again.
C15_NoLostWakeup ==
    \A n \in Node :
        tasks[n].status = "suspended" =>
            /\ WakerRegistered(n)
            /\ \/ tasks[n].handle \notin DOMAIN Results(n)
               \/ tasks[n].handle \in executor[n].to_wake

\* C15 witness: the result has been inserted while the task was suspended and
\* the executor is about to wake it; and a state where a task was woken and
\* polled the value
C15_Witness ==
    \E n \in Node :
        /\ tasks[n].status = "suspended"
        /\ tasks[n].handle \in DOMAIN Results(n)
        /\ tasks[n].handle \in executor[n].to_wake
        /\ tasks[OtherNode(n)].status = "ready"

\* C19: after the executor has handled a Shutdown message no further result
\* is inserted and no waker is woken: a handle whose result was not complete
\* then stays Pending, and a task suspended on it stays suspended.
C19_ShutdownStops ==
    [][\A n \in Node :
        ~executor[n].running =>
            /\ Results(n)' = Results(n)
            /\ executor'[n] = executor[n]
            /\ tasks[n].status = "suspended" => tasks'[n] = tasks[n]
            /\ tasks[n].status = "polling" /\ tasks[n].handle \notin DOMAIN Results(n) =>
                    tasks'[n].status \in {"polling", "suspended"}]_vars

\* C19 witness: the executor stopped with the peer's value still in its
\* queue, and the task that awaits the value is suspended
C19_Witness ==
    \E n \in Node :
        /\ ~executor[n].running
        /\ tasks[n].status = "suspended"
        /\ tasks[n].handle \notin DOMAIN Results(n)
        /\ \E k \in 1 .. Len(fabric[n].inner.execution_queue) :
                /\ fabric[n].inner.execution_queue[k].type = "Result"
                /\ fabric[n].inner.execution_queue[k].id = tasks[n].handle

\* ------------------------------------------------------------------------
\* Properties of concurrent callers
\* ------------------------------------------------------------------------

RECURSIVE Flatten(_)
Flatten(seqs) == IF seqs = <<>> THEN <<>> ELSE Head(seqs) \o Flatten(Tail(seqs))

\* Every id thread c has been handed, by the calls that returned and by the
\* call it is in
HandedTo(c) == Flatten(callers[c].returned) \o callers[c].ids
Handed == HandedTo("a") \o HandedTo("b")

Declared(n) == UNION {Range(call_log[n][i].ops) : i \in 1 .. Len(call_log[n])}
Queued(n) ==
    {message.op : message \in {m \in Range(fabric[n].inner.execution_queue) : m.type = "Op"}}
Waiting(n) == {executor[n].operations[id] : id \in DOMAIN executor[n].operations}
DispatchedIds(n) == {entry.id : entry \in Range(executor[n].dispatched)}
Dispatches(n, id) ==
    Cardinality({k \in 1 .. Len(executor[n].dispatched) : executor[n].dispatched[k].id = id})
Incomplete(n, op) == {i \in 1 .. Len(op.args) : op.args[i] \notin DOMAIN Results(n)}

\* An operation is dispatched at most once, with the values of its arguments,
\* all of them complete
DispatchedOnceOnComplete(n) ==
    /\ \A id \in DispatchedIds(n) : Dispatches(n, id) = 1
    /\ \A entry \in Range(executor[n].dispatched) :
            \E op \in Declared(n) :
                /\ op.id = entry.id
                /\ Incomplete(n, op) = {}
                /\ entry.inputs = [i \in 1 .. Len(op.args) |-> Results(n)[op.args[i]]]
    /\ \A op \in Queued(n) \cup Waiting(n) : op.id \notin DispatchedIds(n)

Doubles(n) == {op \in Declared(n) : Len(op.args) = 2 /\ op.args[1] = op.args[2]}
DispatchOf(n, id) ==
    executor[n].dispatched[CHOOSE k \in 1 .. Len(executor[n].dispatched) :
                                executor[n].dispatched[k].id = id]

\* C22: an operation that names the same result twice is not dispatched while
\* that result is pending, and once the result is complete and the executor
\* has taken the operation from its queue it has been dispatched exactly
\* once, with the value of the result at both argument positions
C22_RepeatedArgument ==
    \A n \in Node : \A op \in Doubles(n) :
        IF op.args[1] \in DOMAIN Results(n) /\ op \notin Queued(n)
        THEN /\ Dispatches(n, op.id) = 1
             /\ DispatchOf(n, op.id).inputs =
                    <<Results(n)[op.args[1]], Results(n)[op.args[1]]>>
             /\ op.result_id \in DOMAIN Results(n)
             /\ Results(n)[op.result_id] =
                    PointAdd(Results(n)[op.args[1]], Results(n)[op.args[1]])
        ELSE Dispatches(n, op.id) = 0

\* An operation that named a pending result twice has waited for it and has
\* been dispatched
C22_Witness ==
    \E n \in Node : \E op \in Doubles(n) :
        /\ Dispatches(n, op.id) = 1
        /\ DispatchOf(n, op.id).waited
        /\ op.args[1] = HandleOf(n, 1)

\* The gates of fabric n have been dispatched and their results are complete
GatesDispatched(n) ==
    IF pc[n] > Len(prog)
    THEN \A op \in Declared(n) :
            op.op_type = "Gate" =>
                /\ Dispatches(n, op.id) = 1
                /\ op.result_id \in DOMAIN Results(n)
    ELSE FALSE

\* The task that awaits the sum has it
SumAwaited(n) ==
    IF tasks[n].status = "ready"
    THEN /\ tasks[n].handle = HandleOf(n, 2)
         /\ tasks[n].output =
                <<PointAdd(Results(n)[HandleOf(n, 1)], Results(n)[HandleOf(n, 1)])>>
    ELSE FALSE

GateResolved(n) == IF GatesDispatched(n) THEN SumAwaited(n) ELSE FALSE

NetworkDispatched(n) ==
    {op \in Declared(n) :
        /\ op.op_type = "Network"
        /\ op.id \notin DispatchedIds(n)
        /\ op.id \in DispatchedIds(n)'}
Outbound(n) == fabric[n].inner.outbound_queue
Tagged(queue, id) == SelectSeq(queue, LAMBDA message : message.result_id = id)

PlaintextResolved(n) ==
    IF tasks[n].status = "ready" THEN tasks[n].output = <<prog[1].val>> ELSE FALSE

PlaintextReceived ==
    \A n \in Node :
        fabric[n].inner.party_id # prog[1].sender => <>PlaintextResolved(n)
PlaintextOneMessage ==
    \A n \in Node :
        /\ Len(sent[n]) + Len(Outbound(n)) <=
                (IF fabric[n].inner.party_id = prog[1].sender THEN 1 ELSE 0)
        /\ Len(call_log[n]) >= 1 =>
                /\ call_log[n][1].result_ids = {N_CONSTANT_RESULTS + 1}
                /\ HandleOf(n, 1) = N_CONSTANT_RESULTS + 1

\* ------------------------------------------------------------------------
\* Negation and subtraction of authenticated points
\* ------------------------------------------------------------------------

\* The negation negates the share and the mac of each party and keeps its
\* public_modifier
NegationFrame ==
    [][NegateLast =>
        \A p \in Party :
            /\ pts'["X"][p].share = PointNeg(pts["X"][p].share)
            /\ pts'["X"][p].mac = PointNeg(pts["X"][p].mac)
            /\ pts'["X"][p].public_modifier = pts["X"][p].public_modifier]_vars

\* C27: open_authenticated of the negation of an authenticated point x
\* yields Ok(-x) on both parties
C27_NegationOpens ==
    (hist = "neg" /\ open_auth_res["X"] # <<>>) =>
        \A p \in Party : AuthResult("X", p) = Ok(clear["X"])

\* The same for the negation of a point that no public point was added to
NegationOfFreshOpens ==
    (hist = "neg" /\ open_auth_res["X"] # <<>>
        /\ \A p \in Party : pts["X"][p].public_modifier = Identity) =>
        \A p \in Party : AuthResult("X", p) = Ok(clear["X"])

\* C28: open_authenticated of A - B yields Ok(a - b) on both parties, for
\* authenticated points A and B that satisfy I1 and I2, whatever their
\* public_modifier
C28_SubtractionOpens ==
    (hist = "sub" /\ open_auth_res["X"] # <<>>) =>
        \A p \in Party : AuthResult("X", p) = Ok(clear["X"])

\* ------------------------------------------------------------------------
\* The addition of a public point on the fabric
\* ------------------------------------------------------------------------

\* What call i returned on fabric n, an authenticated point, and the values
\* of its three results
PointOf(n, i) == call_log[n][i].value
PointComplete(n, i) ==
    {PointOf(n, i).share, PointOf(n, i).mac, PointOf(n, i).public_modifier}
        \subseteq DOMAIN Results(n)
PointValue(n, i) ==
    AuthPoint(Results(n)[PointOf(n, i).share], Results(n)[PointOf(n, i).mac],
              Results(n)[PointOf(n, i).public_modifier])
PartyOf(n) == fabric[n].inner.party_id

C29_SymmetricShape ==
    /\ \A i \in 1 .. Len(prog) :
            (i <= Len(call_log[0]) /\ i <= Len(call_log[1])) =>
                call_log[0][i].result_ids = call_log[1][i].result_ids
    /\ pc[0] = pc[1] =>
            fabric[0].inner.next_result_id = fabric[1].inner.next_result_id

\* Both parties have added a public point to the shared point and opened it
\* with the MAC check, and have counted the same ids
C29_Witness ==
    /\ prog[2].call = "add_public" /\ prog[3].call = "open_authenticated"
    /\ pc[0] = 4 /\ pc[1] = 4
    /\ call_log[0][2].result_ids # {}
    /\ fabric[0].inner.next_result_id = fabric[1].inner.next_result_id

\* The value an authenticated constant stands for
ConstantValue(name) == IF name = "one_authenticated" THEN 1 ELSE 0

\* Both parties hold the constant of call 1, and its shares sum to the value
\* (I1) and its macs to the MAC key times value plus modifier (I2)
ConstantsTaken == Len(call_log[0]) >= 1 /\ Len(call_log[1]) >= 1
ConstantIsSharing ==
    /\ PointAdd(PointValue(0, 1).share, PointValue(1, 1).share)
            = ConstantValue(prog[1].call)
    /\ PointValue(0, 1).public_modifier = PointValue(1, 1).public_modifier
    /\ PointAdd(PointValue(0, 1).mac, PointValue(1, 1).mac)
            = ScalarMul(PointAdd(mac_key[PARTY0], mac_key[PARTY1]),
                        PointAdd(ConstantValue(prog[1].call),
                                 PointValue(0, 1).public_modifier))
ConstantOpens ==
    \A n \in Node :
        OpeningComplete(n, 2) =>
            OpeningResult(n, 2) = Ok(ConstantValue(prog[1].call))

\* C30: for every pair of MAC key shares the constants one_authenticated,
\* zero_authenticated and curve_identity_authenticated have shares that sum
\* to the value and macs that sum to k * (value + public_modifier), and
\* open_authenticated of one_authenticated yields Ok(1)
C30_ConstantsValid ==
    ConstantsTaken => (ConstantIsSharing /\ ConstantOpens)

\* The zero and the identity are valid sharings under every key pair and
\* open to themselves; the one is when party 0's share of the key is zero
ZeroAndIdentityValid ==
    (ConstantsTaken /\ prog[1].call # "one_authenticated") =>
        (ConstantIsSharing /\ ConstantOpens)
OneValidUnderZeroKeyShare ==
    (ConstantsTaken /\ prog[1].call = "one_authenticated" /\ mac_key[PARTY0] = 0) =>
        (ConstantIsSharing /\ ConstantOpens)
\* The macs of the one sum to party 1's share of the key, and its opening is
\* an authentication error when party 0's share of the key is not zero
OneMacIsPartyOneKey ==
    (ConstantsTaken /\ prog[1].call = "one_authenticated") =>
        /\ PointAdd(PointValue(0, 1).mac, PointValue(1, 1).mac) = mac_key[PARTY1]
        /\ \A n \in Node :
                (OpeningComplete(n, 2) /\ mac_key[PARTY0] # 0) =>
                    OpeningResult(n, 2) = AuthenticationError

\* ------------------------------------------------------------------------
\* The MAC check and the future of an authenticated opening
\* ------------------------------------------------------------------------

\* The opening X.open_authenticated() made against the counterparty's messages
Opening == open_auth_res["X"][1]
\* (a) what the peer revealed hashes to the commitment it had sent
PeerCommitmentOpens ==
    hash_commit(Opening.peer.mac_check, Opening.peer.blinder) = Opening.peer.commit
\* (b) the two MAC-check values sum to the identity
MacChecksCancel ==
    PointAdd(Opening.res.my_mac_check, Opening.peer.mac_check) = Identity

AwaitedComplete(n) ==
    /\ AwaitedOpening(n).value \in DOMAIN Results(n)
    /\ AwaitedOpening(n).mac_check \in DOMAIN Results(n)

\* C32: the future of an authenticated opening is Pending until both the
\* opened value and the MAC-check scalar are complete; it then yields
\* Ok(value) if and only if the scalar is 1 and Err(AuthenticationError) for
\* every other scalar, and never yields Ok before the MAC check has completed
C32_OpenFuture ==
    /\ \A n \in Node :
            tasks[n].status = "ready" =>
                /\ AwaitedComplete(n)
                /\ tasks[n].output =
                        <<IF Results(n)[AwaitedOpening(n).mac_check] = 1
                          THEN Ok(Results(n)[AwaitedOpening(n).value])
                          ELSE AuthenticationError>>
    /\ \A value \in Zp, scalar \in Zp \ {1} :
            poll_open_result([value |-> value, mac_check |-> scalar])
                = AuthenticationError

\* C32 witness: the task was polled with the opened value complete and the
\* MAC check not, and is suspended on the MAC-check scalar
C32_Witness ==
    \E n \in Node :
        /\ tasks[n].status = "suspended"
        /\ AwaitedOpening(n).value \in DOMAIN Results(n)
        /\ AwaitedOpening(n).mac_check \notin DOMAIN Results(n)
        /\ AwaitedOpening(n).mac_check \in DOMAIN fabric[n].inner.wakers

\* The future yields Ok on one run and the authentication error on another
OpeningYieldsOk ==
    \E n \in Node : tasks[n].status = "ready" /\ tasks[n].output[1][1] = "Ok"
OpeningYieldsErr ==
    \E n \in Node : tasks[n].status = "ready" /\ tasks[n].output[1] = AuthenticationError

\* ------------------------------------------------------------------------
\* Batches
\* ------------------------------------------------------------------------

\* The network operations that call i declared on fabric n
NetworkOpsOf(n, i) ==
    {k \in 1 .. Len(call_log[n][i].ops) : call_log[n][i].ops[k].op_type = "Network"}
BatchOpened(n) ==
    Len(call_log[n]) = Len(prog) /\ prog[Len(prog)].call = "open_authenticated_batch"

\* C33: for every batch size n >= 1 open_authenticated_batch declares four
\* network operations and allocates four receive slots: the exchange of the
\* shares, of the commitments, of the MAC-check values and of the blinders
C33_ConstantExchanges ==
    \A n \in Node :
        BatchOpened(n) =>
            /\ Cardinality(NetworkOpsOf(n, Len(prog))) = 4
            /\ Cardinality(call_log[n][Len(prog)].slots) = 4

\* C33 witness: a batch of the largest size has been opened by both parties,
\* with four exchanges
C33_Witness ==
    /\ Len(prog) = MaxBatch + 1
    /\ \A n \in Node :
            /\ BatchOpened(n)
            /\ Len(call_log[n][Len(prog)].value) = MaxBatch
            /\ Cardinality(NetworkOpsOf(n, Len(prog))) = 4

\* The batch opening yields the shared points and check scalars of 1
BatchOpensHonestly ==
    \A n \in Node :
        BatchOpened(n) =>
            \A i \in 1 .. Len(prog) - 1 :
                LET open == call_log[n][Len(prog)].value[i]
                IN  /\ open.value \in DOMAIN Results(n) => Results(n)[open.value] = Generator
                    /\ open.mac_check \in DOMAIN Results(n) => Results(n)[open.mac_check] = 1
BatchOpeningDone ==
    \A n \in Node :
        /\ BatchOpened(n)
        /\ \A i \in 1 .. Len(prog) - 1 :
                call_log[n][Len(prog)].value[i].mac_check \in DOMAIN Results(n)


\* ------------------------------------------------------------------------
\* The beaver source
\* ------------------------------------------------------------------------

Multiplied(n) == {i \in 1 .. Len(call_log[n]) : prog[i].call \in {"mul", "batch_mul"}}
PairsOf(i) == IF prog[i].call = "mul" THEN 1 ELSE prog[i].random
DrawnByThreads == Cardinality({c \in Caller : callers[c].drawn # <<>> \/ callers[c].pc = 2})

\* The values a party holds at the three shares of a triple
TripleValues(n, triple) == [m \in 1 .. 3 |-> fabric[n].inner.results[triple[m].share]]

\* A multiplication consumes one triple for every pair, and nothing else
\* moves the source
ConsumesOnePerPair ==
    \A n \in Node :
        /\ \A i \in Multiplied(n) :
            LET drew == call_log[n][i].value
            IN  /\ drew.drawn = drew.first_triple - 1 + PairsOf(i)
                /\ Len(drew.triples) = PairsOf(i)
                /\ drew.first_triple - 1 =
                        IF \E j \in Multiplied(n) : j < i
                        THEN call_log[n][CHOOSE j \in Multiplied(n) :
                                /\ j < i
                                /\ \A l \in Multiplied(n) : l < i => l <= j].value.drawn
                        ELSE 0
        /\ fabric[n].inner.beaver_source =
                (IF Multiplied(n) = {} THEN 0
                 ELSE call_log[n][CHOOSE i \in Multiplied(n) :
                        \A l \in Multiplied(n) : l <= i].value.drawn)
                + (IF n = 0 THEN DrawnByThreads ELSE 0)

\* The k-th triple drawn by a party holds the k-th triple of its source, at
\* the result ids the counterparty has for its own k-th triple
BoundToSameIds ==
    /\ \A n \in Node : \A i \in Multiplied(n) : \A j \in 1 .. PairsOf(i) :
            TripleValues(n, call_log[n][i].value.triples[j]) =
                triplet(fabric[n].inner.party_id,
                        call_log[n][i].value.first_triple + j - 1)
    /\ \A i \in Multiplied(0) \cap Multiplied(1) :
            call_log[0][i].value.triples = call_log[1][i].value.triples

\* One thread at a time holds the source, and no triple is handed out twice
\* or skipped
SourceIsExclusive ==
    /\ \A c \in Caller : \A other \in Caller \ {c} :
            /\ ~(callers[c].locked /\ callers[other].locked)
            /\ callers[c].returned # <<>> /\ callers[other].returned # <<>> =>
                    callers[c].returned[1].k # callers[other].returned[1].k
    /\ \A c \in Caller : callers[c].returned # <<>> =>
            /\ callers[c].returned[1].k \in 1 .. fabric[0].inner.beaver_source
            /\ TripleValues(0, callers[c].returned[1].triple) =
                    triplet(fabric[0].inner.party_id, callers[c].returned[1].k)

Inserted(n) == DOMAIN fabric'[n].inner.results \ DOMAIN fabric[n].inner.results
\* A step in which user code of party n returns from a call into the fabric
UserCall(n) == call_log'[n] # call_log[n]
\* A step of the executor of party n
ExecutorStepOf(n) == executor'[n] # executor[n]

\* C35: every insertion into the result buffer is performed by the executor
\* worker; no fabric call made by user code writes to the buffer.
C35_SingleWriter == [][\A n \in Node : UserCall(n) => Inserted(n) = {}]_vars

\* The executor inserts the results it computes and receives into the same
\* buffer
ExecutorNeverInserts == [][\A n \in Node : ExecutorStepOf(n) => Inserted(n) = {}]_vars


\* ------------------------------------------------------------------------
\* Batched subtraction and negation of authenticated points
\* ------------------------------------------------------------------------

\* The batches of registers whose results the program assigns back to them
TargetBatches == {a \in Batches : a # <<>> /\ \A i, j \in DOMAIN a : a[i] = a[j] => i = j}
\* What party p holds of the points of a batch
Held(batch, p) == [i \in DOMAIN batch |-> pts[batch[i]][p]]

\* The results of a batch operation replace the registers of a
AssignBatch(a, results, new_clear) ==
    /\ pts' = [r \in Reg |->
                IF \E i \in DOMAIN a : a[i] = r
                THEN [p \in Party |-> results[p][CHOOSE i \in DOMAIN a : a[i] = r]]
                ELSE pts[r]]
    /\ clear' = [r \in Reg |->
                IF \E i \in DOMAIN a : a[i] = r
                THEN new_clear[CHOOSE i \in DOMAIN a : a[i] = r]
                ELSE clear[r]]
    /\ hist' = "batch"
    /\ UNCHANGED <<mac_key, shared, tampered, open_res, open_auth_res, open_batch_res,
                   scl, fabVars>>

\* a = batch_sub(a, b)
BatchSub(a, b) ==
    /\ Building /\ Honest
    /\ Len(a) = Len(b)
    /\ \A i \in DOMAIN a : a[i] \in shared /\ b[i] \in shared
    /\ AssignBatch(a, [p \in Party |-> batch_sub(Held(a, p), Held(b, p))],
                   [i \in DOMAIN a |-> PointSub(clear[a[i]], clear[b[i]])])

\* a = batch_neg(a)
BatchNeg(a) ==
    /\ Building /\ Honest
    /\ \A i \in DOMAIN a : a[i] \in shared
    /\ AssignBatch(a, [p \in Party |-> batch_neg(Held(a, p))],
                   [i \in DOMAIN a |-> PointNeg(clear[a[i]])])

\* Points are shared, public points are added to X, and batches are
\* subtracted and negated
NextBatchLocal ==
    \/ \E r \in Reg, val \in Zp, sender \in Party, random \in Rand :
            SharePoint(r, val, sender, random, random)
    \/ \E other \in Zp : AddPublicToLinear(other)
    \/ \E a \in TargetBatches, b \in Batches : BatchSub(a, b)
    \/ \E a \in TargetBatches : BatchNeg(a)

SpecBatchLocal == Init /\ [][NextBatchLocal]_vars

\* C37: element i of batch_sub(a, b) has the same share, mac and
\* public_modifier values as a[i] - b[i], for equal-length slices a and b of
\* authenticated points.
C37_BatchSubAgrees ==
    [][\A a \in TargetBatches, b \in Batches :
        BatchSub(a, b) =>
            \A i \in DOMAIN a : \A p \in Party :
                pts'[a[i]][p] = sub_Authenticated(pts[a[i]][p], pts[b[i]][p])]_vars

\* The shares and the macs agree; the modifiers agree when those of b are the
\* identity
BatchSubAgreesOnShareAndMac ==
    [][\A a \in TargetBatches, b \in Batches :
        BatchSub(a, b) =>
            \A i \in DOMAIN a : \A p \in Party :
                LET single == sub_Authenticated(pts[a[i]][p], pts[b[i]][p])
                IN  /\ pts'[a[i]][p].share = single.share
                    /\ pts'[a[i]][p].mac = single.mac
                    /\ pts[b[i]][p].public_modifier = Identity =>
                            pts'[a[i]][p].public_modifier = single.public_modifier]_vars

\* C38: element i of batch_neg(a) has the same share, mac and
\* public_modifier values as -a[i], for every slice a of authenticated
\* points.
C38_BatchNegAgrees ==
    [][\A a \in TargetBatches :
        BatchNeg(a) =>
            \A i \in DOMAIN a : \A p \in Party :
                pts'[a[i]][p] = neg_Authenticated(pts[a[i]][p])]_vars

\* The shares and the macs agree; the modifiers agree when they are the
\* identity
BatchNegAgreesOnShareAndMac ==
    [][\A a \in TargetBatches :
        BatchNeg(a) =>
            \A i \in DOMAIN a : \A p \in Party :
                LET single == neg_Authenticated(pts[a[i]][p])
                IN  /\ pts'[a[i]][p].share = single.share
                    /\ pts'[a[i]][p].mac = single.mac
                    /\ pts[a[i]][p].public_modifier = Identity =>
                            pts'[a[i]][p].public_modifier = single.public_modifier]_vars


\* ------------------------------------------------------------------------
\* Subtraction from a public point
\* ------------------------------------------------------------------------

\* X = other - X, for a public point other, as the last operation before the
\* opening
SubFromPublicLast(other) ==
    /\ Building /\ Honest /\ "X" \in shared
    /\ hist \in {"fresh", "linear"}
    /\ Apply([p \in Party |-> sub_from_StarkPoint(p, other, pts["X"][p])],
             PointSub(other, clear["X"]), "sub_from_public")

NextSubFromPublic ==
    \/ \E r \in Reg, val \in Zp, sender \in Party, random \in Rand :
            SharePoint(r, val, sender, random, random)
    \/ \E other \in Zp : AddPublicToLinear(other)
    \/ \E other \in Zp : SubFromPublicLast(other)
    \/ Open
    \/ OpenAuthenticated("X")

SpecSubFromPublic == Init /\ [][NextSubFromPublic]_vars

\* C39: for a public point P and an authenticated point X with cleartext x,
\* P - X is an authenticated value that opens to P - x and satisfies I2.
C39_SubFromPublic ==
    hist = "sub_from_public" =>
        /\ ShareSum("X") = clear["X"]
        /\ \A p \in Party : MacInvariantAt("X", p)
        /\ open_auth_res["X"] # <<>> =>
                \A p \in Party : AuthResult("X", p) = Ok(clear["X"])

\* What P - X is: a value that satisfies I2 and opens to x - P
SubFromPublicIsSubPublic ==
    hist = "sub_from_public" =>
        /\ ShareSum("X") = PointNeg(clear["X"])
        /\ \A p \in Party : MacInvariantAt("X", p)
        /\ open_auth_res["X"] # <<>> =>
                \A p \in Party : AuthResult("X", p) = Ok(PointNeg(clear["X"]))


\* ------------------------------------------------------------------------
\* The ids of a batch operation declared by concurrent callers
\* ------------------------------------------------------------------------

\* The operation that a call of new_op pushed, found by the first id the
\* call returned
PushedWith(first_result_id) ==
    LET queue == fabric[0].inner.execution_queue
    IN  queue[CHOOSE i \in DOMAIN queue : queue[i].op.result_id = first_result_id].op

\* The calls of new_op that thread c has returned from
ReturnedNewOps(c) ==
    {k \in 1 .. Len(callers[c].returned) : callers[c].prog[k].name = "new_op"}

\* C36: for every interleaving of concurrent new_op calls on clones of one
\* fabric, the result ids returned by a call with output_arity = m are
\* first_result_id, ..., first_result_id + m - 1, the ids of
\* Operation::result_ids() at which the executor places the outputs.
C36_ContiguousBatchIds ==
    \A c \in Caller : \A k \in ReturnedNewOps(c) :
        LET ids == callers[c].returned[k]
        IN  /\ Len(ids) = callers[c].prog[k].output_arity
            /\ ids = result_ids(PushedWith(ids[1]))

\* The ids of a batch operation are contiguous when no other thread takes an
\* id while the call takes its own
ContiguousWhenAlone ==
    \A c \in Caller : \A k \in ReturnedNewOps(c) :
        (\A other \in Caller \ {c} : \A j \in 1 .. Len(HandedTo(other)) :
            LET ids == callers[c].returned[k]
            IN  HandedTo(other)[j] < ids[1] \/ HandedTo(other)[j] > ids[Len(ids)])
        => callers[c].returned[k] = result_ids(PushedWith(callers[c].returned[k][1]))

\* An output of a batch operation is placed at an id that another call was
\* handed
OutputsCollide ==
    \E c \in Caller : \E k \in ReturnedNewOps(c) :
        \E other \in Caller \ {c} : \E j \in 1 .. Len(HandedTo(other)) :
            /\ HandedTo(other)[j] \in Range(result_ids(PushedWith(callers[c].returned[k][1])))
            /\ HandedTo(other)[j] \notin Range(callers[c].returned[k])


\* ------------------------------------------------------------------------
\* Empty batches
\* ------------------------------------------------------------------------

\* The calls of party n that were given an empty batch
OnEmpty(n) == {i \in 1 .. Len(call_log[n]) : call_log[n][i].value.input = 0}

\* The call returned the empty vector and left the fabric as it was
ReturnedEmpty(n, i) ==
    /\ ~call_log[n][i].value.panicked
    /\ call_log[n][i].value.out = <<>>
    /\ \A k \in 1 .. Len(call_log[n][i].ops) : call_log[n][i].ops[k].output_arity >= 1

\* C40: every batch constructor and batch operation on authenticated points
\* returns an empty vector for empty input, without failing and without
\* queuing an operation of output arity 0; this includes
\* new_shared_from_batch_result with n = 0 as reached from batch_share_point
\* of an empty vector.
C40_EmptyBatches ==
    \A n \in Node : \A i \in OnEmpty(n) : ReturnedEmpty(n, i)

\* The batch operations return the empty vector for the empty slice and
\* declare nothing
OperationsOnEmptyReturnEmpty ==
    \A n \in Node : \A i \in OnEmpty(n) :
        prog[i].call \in BatchOperations =>
            /\ ReturnedEmpty(n, i)
            /\ call_log[n][i].ops = <<>> /\ call_log[n][i].result_ids = {}

\* batch_share_point of an empty vector panics on both parties, and only it
PanicsExactlyOnEmptyShare ==
    \A n \in Node : \A i \in 1 .. Len(call_log[n]) :
        call_log[n][i].value.panicked <=>
            (prog[i].call = "batch_share_point" /\ prog[i].val = 0)

\* A batch of MaxBatch points was shared and an operation applied to it
BatchOperationApplied ==
    \A n \in Node :
        /\ Len(call_log[n]) = 2
        /\ Len(call_log[n][2].value.out) = MaxBatch

====
